---------------------------- MODULE Spec2Model ----------------------------
(***************************************************************************)
(* Food Memory Bot: the conversation router (bot.py), the classifier       *)
(* integration (services/llm.py), the persistence operations               *)
(* (services/database.py) and the logging, amendment, query and suggestion *)
(* handlers (handlers/*.py), as a state machine over inbound chat events.  *)
(*                                                                         *)
(* Encoding of Python values:                                              *)
(*   - free text that the code lower-cases, trims or searches (restaurant  *)
(*     names, dishes, notes, cuisines) is a tuple of one-character         *)
(*     strings; NoneText stands for None in such a field;                  *)
(*   - opaque strings (labels, place ids, message texts) are TLA+ strings; *)
(*     None stands for None in such a field;                               *)
(*   - sentiment scores and confidences are integers in tenths (0.5 is 5); *)
(*     NoneInt stands for None in an optional number;                      *)
(*   - row ids are 1, 2, ...; NoId stands for a missing chat_data key.     *)
(***************************************************************************)
EXTENDS Integers, Sequences, FiniteSets, TLC

None == "None"
NoneText == <<"None">>
NoneInt == -100
NoId == 0
NonePayload == [none |-> TRUE]

\* Python truthiness of an Optional[str] held as a character tuple.
TruthyText(s) == s # NoneText /\ s # <<>>
\* Python truthiness of an Optional[str] held as an opaque string.
TruthyStr(s) == s # None /\ s # ""

Range(s) == {s[i] : i \in DOMAIN s}

Min(S) == CHOOSE x \in S : \A y \in S : x <= y

\* str.lower() / SQL LOWER() on the model's alphabet.
LowerChar(ch) == IF ch = "A" THEN "a" ELSE IF ch = "B" THEN "b" ELSE ch

Lower(s) == [i \in DOMAIN s |-> LowerChar(s[i])]

\* str.strip(): drop leading and trailing blanks.
RECURSIVE LStrip(_)
LStrip(s) == IF s # <<>> /\ Head(s) = " " THEN LStrip(Tail(s)) ELSE s

RECURSIVE RStrip(_)
RStrip(s) ==
    IF s # <<>> /\ s[Len(s)] = " " THEN RStrip(SubSeq(s, 1, Len(s) - 1)) ELSE s

Strip(s) == RStrip(LStrip(s))

\* Python's `a in b` on strings: a occurs as a contiguous substring of b.
Contains(b, a) ==
    \E i \in 1..(Len(b) + 1) :
        /\ i + Len(a) - 1 <= Len(b)
        /\ SubSeq(b, i, i + Len(a) - 1) = a

\* SQL `s LIKE p`: % matches any run of characters, _ any one character.
RECURSIVE LikeMatch(_, _)
LikeMatch(p, s) ==
    IF p = <<>> THEN s = <<>>
    ELSE IF Head(p) = "%"
         THEN \E k \in 0..Len(s) : LikeMatch(Tail(p), SubSeq(s, k + 1, Len(s)))
         ELSE /\ s # <<>>
              /\ (Head(p) = "_" \/ Head(p) = Head(s))
              /\ LikeMatch(Tail(p), Tail(s))

\* The pattern f"%{x}%".
Wrapped(x) == <<"%">> \o x \o <<"%">>


(***************************************************************************)
(* services/llm.py: the classifier's structured output and its validation  *)
(***************************************************************************)

\* A JSON object is a record whose domain holds the keys that are present.
Has(d, k) == k \in DOMAIN d
Get(d, k, default) == IF k \in DOMAIN d THEN d[k] ELSE default
Put(d, k, v) == [x \in DOMAIN d \cup {k} |-> IF x = k THEN v ELSE d[x]]
EmptyDict == [x \in {} |-> None]

\* A raw JSON sentiment is a number, a string or null.
Num(n) == [num |-> n]
Str(s) == [str |-> s]
Null == [null |-> TRUE]
IsNumber(v) == "num" \in DOMAIN v
NoneList == NoneText

\* Python truthiness of data.get(key) for an object-valued key.
TruthyDict(d) == d # NonePayload /\ DOMAIN d # {}

Intents ==
    {"log_entry", "add_details", "query_restaurant", "query_general",
     "what_to_eat", "greeting", "unknown"}

SentimentLabels == {"positive", "negative", "neutral", "mixed"}

max_retries == 3

\* Faulty variant of SentimentOfNumber: the positive bound is exclusive.
SentimentOfNumber_Exclusive(s) ==
    IF s > 5 THEN "positive"
    ELSE IF s <= -5 THEN "negative"
    ELSE IF -2 <= s /\ s <= 2 THEN "neutral"
    ELSE "mixed"

\* The numeric-to-label mapping shared by both normalizers (tenths).
SentimentOfNumber(s) ==
    IF s >= 5 THEN "positive"
    ELSE IF s <= -5 THEN "negative"
    ELSE IF -2 <= s /\ s <= 2 THEN "neutral"
    ELSE "mixed"

NormalizeTags(data) ==
    IF Has(data, "tags") /\ data.tags = NoneList THEN Put(data, "tags", <<>>)
    ELSE data

_normalize_log_entry(data) ==
    LET d1 ==
          IF ~Has(data, "sentiment") THEN data
          ELSE LET sentiment == data.sentiment IN
               IF IsNumber(sentiment)
               THEN LET d0 == Put(data, "sentiment",
                                  Str(SentimentOfNumber(sentiment.num)))
                    IN IF ~Has(d0, "sentiment_score")
                          \/ d0.sentiment_score = NoneInt
                       THEN Put(d0, "sentiment_score", sentiment.num)
                       ELSE d0
               ELSE IF sentiment = Null \/ sentiment.str \notin SentimentLabels
                    THEN Put(data, "sentiment", Str("neutral"))
                    ELSE data
    IN NormalizeTags(d1)

_normalize_details(data) ==
    LET d1 ==
          IF ~(Has(data, "sentiment") /\ data.sentiment # Null) THEN data
          ELSE LET sentiment == data.sentiment IN
               IF IsNumber(sentiment)
               THEN LET d0 == Put(data, "sentiment",
                                  Str(SentimentOfNumber(sentiment.num)))
                    IN IF ~Has(d0, "sentiment_score")
                          \/ d0.sentiment_score = NoneInt
                       THEN Put(d0, "sentiment_score", sentiment.num)
                       ELSE d0
               ELSE data
    IN NormalizeTags(d1)

\* ParsedLogEntry(**data): restaurant_name is a required str,
\* sentiment_score a (non-optional) float.
LogEntryValidates(d) ==
    /\ Has(d, "restaurant_name") /\ d.restaurant_name # NoneText
    /\ (Has(d, "sentiment_score") => d.sentiment_score # NoneInt)
    /\ (Has(d, "tags") => d.tags # NoneList)

ParsedLogEntry(d) ==
    [restaurant_name |-> d.restaurant_name,
     dish_name       |-> Get(d, "dish_name", NoneText),
     sentiment       |-> IF Has(d, "sentiment") THEN d.sentiment.str
                         ELSE "neutral",
     sentiment_score |-> Get(d, "sentiment_score", 0),
     tags            |-> Get(d, "tags", <<>>),
     notes           |-> Get(d, "notes", NoneText)]

ParsedDetails(d) ==
    [restaurant_name |-> Get(d, "restaurant_name", NoneText),
     dish_name       |-> Get(d, "dish_name", NoneText),
     notes           |-> Get(d, "notes", NoneText),
     sentiment       |-> IF Has(d, "sentiment") /\ d.sentiment # Null
                         THEN d.sentiment.str ELSE None,
     sentiment_score |-> Get(d, "sentiment_score", NoneInt),
     tags            |-> Get(d, "tags", <<>>)]

ParsedQuery(d) ==
    [restaurant_name |-> Get(d, "restaurant_name", NoneText),
     cuisine         |-> Get(d, "cuisine", NoneText),
     sentiment       |-> Get(d, "sentiment", None),
     search_term     |-> Get(d, "search_term", NoneText)]

MessageAnalysis(intent, confidence, log_entry, details, query, clarification) ==
    [intent |-> intent, confidence |-> confidence, log_entry |-> log_entry,
     details |-> details, query |-> query,
     clarification_needed |-> clarification]

\* The body of the try block for one model response that is valid JSON:
\* [ok |-> FALSE] when building the pydantic models raises.
ParseResponse(data) ==
    LET le == IF TruthyDict(Get(data, "log_entry", NonePayload))
              THEN _normalize_log_entry(data.log_entry) ELSE NonePayload
        de == IF TruthyDict(Get(data, "details", NonePayload))
              THEN _normalize_details(data.details) ELSE NonePayload
        qu == IF TruthyDict(Get(data, "query", NonePayload))
              THEN data.query ELSE NonePayload
    IN IF Get(data, "intent", "unknown") \notin Intents
          \/ (le # NonePayload /\ ~LogEntryValidates(le))
       THEN [ok |-> FALSE]
       ELSE [ok |-> TRUE,
             analysis |->
               MessageAnalysis(
                 Get(data, "intent", "unknown"),
                 Get(data, "confidence", 10),
                 IF le # NonePayload THEN ParsedLogEntry(le) ELSE NonePayload,
                 IF de # NonePayload THEN ParsedDetails(de) ELSE NonePayload,
                 IF qu # NonePayload THEN ParsedQuery(qu) ELSE NonePayload,
                 Get(data, "clarification_needed", None))]

CouldNotUnderstand ==
    MessageAnalysis("unknown", 0, NonePayload, NonePayload, NonePayload,
                    "I couldn't understand that message. Could you rephrase?")

\* Faulty variant of SomethingWentWrong: the failure analysis keeps the
\* schema's default confidence.
SomethingWentWrong_Confident ==
    MessageAnalysis("unknown", 10, NonePayload, NonePayload, NonePayload,
                    "Something went wrong. Please try again.")

SomethingWentWrong ==
    MessageAnalysis("unknown", 0, NonePayload, NonePayload, NonePayload,
                    "Something went wrong. Please try again.")

UnableToProcess ==
    MessageAnalysis("unknown", 0, NonePayload, NonePayload, NonePayload,
                    "Unable to process message.")

\* Faulty variant of AttemptOutcome: a valid response is returned only on
\* the last iteration, earlier iterations fall through to the next one.
AttemptOutcome_ReturnsLast(r, attempt) ==
    IF attempt # max_retries - 1 THEN [do |-> "retry"]
    ELSE IF "data" \in DOMAIN r /\ ParseResponse(r.data).ok
    THEN [do |-> "return", failed |-> FALSE,
          analysis |-> ParseResponse(r.data).analysis]
    ELSE IF "data" \in DOMAIN r
    THEN [do |-> "return", failed |-> TRUE, analysis |-> SomethingWentWrong]
    ELSE IF r.err = "json"
    THEN [do |-> "return", failed |-> TRUE, analysis |-> CouldNotUnderstand]
    ELSE [do |-> "raise"]

\* What one attempt does with the outcome r of the model call: "return"
\* an analysis (failed: from an except branch), "raise", or "retry" (fall to
\* the next iteration).
AttemptOutcome(r, attempt) ==
    IF "data" \in DOMAIN r /\ ParseResponse(r.data).ok
    THEN [do |-> "return", failed |-> FALSE,
          analysis |-> ParseResponse(r.data).analysis]
    ELSE IF attempt # max_retries - 1 THEN [do |-> "retry"]
    ELSE IF "data" \in DOMAIN r
    THEN [do |-> "return", failed |-> TRUE, analysis |-> SomethingWentWrong]
    ELSE IF r.err = "json"
    THEN [do |-> "return", failed |-> TRUE, analysis |-> CouldNotUnderstand]
    ELSE [do |-> "raise"]

\* The outcome of the model call of iteration `attempt` (0-based); a run
\* shorter than the loop repeats its last outcome.
ModelCall(run, attempt) ==
    IF attempt + 1 <= Len(run) THEN run[attempt + 1] ELSE run[Len(run)]

\* The retry loop over the outcomes `run` of the successive model calls:
\* [raised, failed, analysis, calls] where calls counts the model calls made.
RECURSIVE AnalyzeFrom(_, _)
AnalyzeFrom(run, attempt) ==
    IF attempt >= max_retries
    THEN [raised |-> FALSE, failed |-> TRUE, analysis |-> UnableToProcess,
          calls |-> attempt]
    ELSE LET o == AttemptOutcome(ModelCall(run, attempt), attempt) IN
         IF o.do = "return"
         THEN [raised |-> FALSE, failed |-> o.failed, analysis |-> o.analysis,
               calls |-> attempt + 1]
         ELSE IF o.do = "raise"
         THEN [raised |-> TRUE, failed |-> TRUE, analysis |-> UnableToProcess,
               calls |-> attempt + 1]
         ELSE AnalyzeFrom(run, attempt + 1)

analyze_message(run) == AnalyzeFrom(run, 0)

(***************************************************************************)
(* services/database.py: restaurants and entries, rows numbered from 1     *)
(***************************************************************************)

Restaurant(id, row) ==
    [id |-> id, name |-> row.name, google_place_id |-> row.google_place_id,
     address |-> row.address, cuisine |-> row.cuisine,
     price_level |-> row.price_level, dine_in |-> row.dine_in]

NoRestaurant == [id |-> NoId]

\* Rows whose lower-cased name equals the lower-cased query.
ExactMatches(rs, name) ==
    {i \in DOMAIN rs : Lower(rs[i].name) = Lower(name)}

\* Rows whose lower-cased name is LIKE the lower-cased %query%.
PartialMatches(rs, name) ==
    {i \in DOMAIN rs : LikeMatch(Lower(Wrapped(name)), Lower(rs[i].name))}

\* The id of the row returned (LIMIT 1, in rowid order), or NoId.
find_restaurant_by_name(rs, name) ==
    IF ExactMatches(rs, name) # {} THEN Min(ExactMatches(rs, name))
    ELSE IF PartialMatches(rs, name) # {} THEN Min(PartialMatches(rs, name))
    ELSE NoId

\* Keyword defaults of find_or_create_restaurant when no place data is passed.
NoPlace ==
    [place_id |-> None, address |-> None, cuisine |-> NoneText,
     price_level |-> NoneInt, dine_in |-> TRUE]

\* SQL COALESCE(new, old) on a text and on a number.
CoalesceText(new, old) == IF new # NoneText THEN new ELSE old
CoalesceInt(new, old) == IF new # NoneInt THEN new ELSE old

\* Python `new or old` on an Optional[str] and an Optional[int].
OrText(new, old) == IF TruthyText(new) THEN new ELSE old
OrInt(new, old) == IF new # NoneInt /\ new # 0 THEN new ELSE old

\* The UPDATE statement of the name-match branch.
MergedRow(row, p) ==
    [name |-> row.name, google_place_id |-> p.place_id, address |-> p.address,
     cuisine |-> CoalesceText(p.cuisine, row.cuisine),
     price_level |-> CoalesceInt(p.price_level, row.price_level),
     dine_in |-> p.dine_in]

\* The `existing` object after the in-memory field assignments.
MergedObject(id, row, p) ==
    [id |-> id, name |-> row.name, google_place_id |-> p.place_id,
     address |-> p.address, cuisine |-> OrText(p.cuisine, row.cuisine),
     price_level |-> OrInt(p.price_level, row.price_level),
     dine_in |-> p.dine_in]

NewRow(name, p) ==
    [name |-> name, google_place_id |-> p.place_id, address |-> p.address,
     cuisine |-> p.cuisine, price_level |-> p.price_level,
     dine_in |-> p.dine_in]

\* Faulty variant of find_or_create_restaurant: no lookup by place id.
find_or_create_restaurant_NoPlaceLookup(rs, name, p) ==
    LET existing == find_restaurant_by_name(rs, name)
    IN IF existing # NoId
       THEN IF TruthyStr(p.place_id)
               /\ ~TruthyStr(rs[existing].google_place_id)
            THEN [restaurants |->
                      [rs EXCEPT ![existing] = MergedRow(rs[existing], p)],
                  restaurant |-> MergedObject(existing, rs[existing], p)]
            ELSE [restaurants |-> rs,
                  restaurant |-> Restaurant(existing, rs[existing])]
       ELSE [restaurants |-> Append(rs, NewRow(name, p)),
             restaurant |-> Restaurant(Len(rs) + 1, NewRow(name, p))]

\* [restaurants |-> the table afterwards, restaurant |-> the object returned].
find_or_create_restaurant(rs, name, p) ==
    LET byPlace == {i \in DOMAIN rs : rs[i].google_place_id = p.place_id}
        existing == find_restaurant_by_name(rs, name)
    IN IF TruthyStr(p.place_id) /\ byPlace # {}
       THEN [restaurants |-> rs,
             restaurant |-> Restaurant(Min(byPlace), rs[Min(byPlace)])]
       ELSE IF existing # NoId
       THEN IF TruthyStr(p.place_id)
               /\ ~TruthyStr(rs[existing].google_place_id)
            THEN [restaurants |->
                      [rs EXCEPT ![existing] = MergedRow(rs[existing], p)],
                  restaurant |-> MergedObject(existing, rs[existing], p)]
            ELSE [restaurants |-> rs,
                  restaurant |-> Restaurant(existing, rs[existing])]
       ELSE [restaurants |-> Append(rs, NewRow(name, p)),
             restaurant |-> Restaurant(Len(rs) + 1, NewRow(name, p))]

\* The tags column: NULL for an empty or missing list, else its JSON text.
TagsColumn(tags) == IF tags = <<>> \/ tags = NoneList THEN NoneList ELSE tags

\* json.loads(row["tags"]) if row["tags"] else [].
TagsOf(row) == IF row.tags = NoneList THEN <<>> ELSE row.tags

\* The row inserted by add_entry; exact_order is not passed by any caller.
add_entry(es, restaurant_id, user, dish, notes, sentiment, sentiment_score, tags) ==
    Append(es,
           [restaurant_id |-> restaurant_id, user_telegram_id |-> user,
            dish |-> dish, exact_order |-> None, notes |-> notes,
            sentiment |-> sentiment, sentiment_score |-> sentiment_score,
            tags |-> TagsColumn(tags)])

\* Faulty variant of update_entry: the update also detaches the entry
\* from its restaurant.
update_entry_Detaches(es, entry_id, kwargs) ==
    IF entry_id \notin DOMAIN es THEN es
    ELSE [es EXCEPT ![entry_id] =
            [k \in DOMAIN es[entry_id] |->
                IF k = "restaurant_id" THEN NoId
                ELSE IF k \in DOMAIN kwargs THEN kwargs[k]
                ELSE es[entry_id][k]]]

\* UPDATE entries SET <the keys of kwargs> WHERE id = entry_id.
update_entry(es, entry_id, kwargs) ==
    IF entry_id \notin DOMAIN es THEN es
    ELSE [es EXCEPT ![entry_id] =
            [k \in DOMAIN es[entry_id] |->
                IF k \in DOMAIN kwargs THEN kwargs[k] ELSE es[entry_id][k]]]

\* The row get_entry returns, or NonePayload when the id matches no row.
get_entry(es, entry_id) ==
    IF entry_id \in DOMAIN es
    THEN [es[entry_id] EXCEPT !.tags = TagsOf(es[entry_id])]
    ELSE NonePayload

\* SELECT DISTINCT cuisine ... WHERE cuisine IS NOT NULL AND cuisine != ''.
get_distinct_cuisines(rs) ==
    {rs[i].cuisine : i \in {j \in DOMAIN rs : TruthyText(rs[j].cuisine)}}

\* LOWER(r.cuisine) LIKE LOWER(%cuisine%); a NULL cuisine matches nothing.
CuisineMatches(row, cuisine) ==
    /\ row.cuisine # NoneText
    /\ LikeMatch(Lower(Wrapped(cuisine)), Lower(row.cuisine))

\* The restaurant ids get_random_positive_restaurant draws from.
PositiveCandidates(rs, es, cuisine, exclude_ids) ==
    {i \in DOMAIN rs :
        /\ \E e \in DOMAIN es :
              es[e].restaurant_id = i /\ es[e].sentiment = "positive"
        /\ (TruthyText(cuisine) => CuisineMatches(rs[i], cuisine))
        /\ i \notin exclude_ids}

\* The rows search_entries selects (before ORDER BY ... LIMIT).
search_entries(rs, es, cuisine, sentiment, search_term) ==
    {e \in DOMAIN es :
        LET r == rs[es[e].restaurant_id] IN
        /\ (TruthyText(cuisine) => CuisineMatches(r, cuisine))
        /\ (TruthyStr(sentiment) => es[e].sentiment = sentiment)
        /\ (TruthyText(search_term) =>
              \/ LikeMatch(Lower(Wrapped(search_term)), Lower(r.name))
              \/ /\ es[e].dish # NoneText
                 /\ LikeMatch(Lower(Wrapped(search_term)), Lower(es[e].dish))
              \/ /\ es[e].notes # NoneText
                 /\ LikeMatch(Lower(Wrapped(search_term)), Lower(es[e].notes)))}

(***************************************************************************)
(* Handlers.  A handler is an operator from the state it reads to a record *)
(* of what it leaves: the tables (rs, es), the chat's chat_data (cd), the  *)
(* messages it sends or edits (out), the handlers it called (calls), the   *)
(* conversation state it returns (state) and the assistant turns it passed *)
(* to messages.append (appended).                                          *)
(***************************************************************************)

HistoryWindow == 10
ContextWindow == 5
ConfidenceThreshold == 5

END == "END"
WAITING_FOR_ORDER == "WAITING_FOR_ORDER"
SELECTING_CUISINE == "SELECTING_CUISINE"
CONFIRMING == "CONFIRMING"

ADD_ORDER_YES == [data |-> "add_order_yes"]
ADD_ORDER_NO == [data |-> "add_order_no"]
ACCEPT == [data |-> "accept"]
REJECT == [data |-> "reject"]
CANCEL == [data |-> "cancel"]
ANY_CUISINE == <<"a", "n", "y">>
CuisineButton(cuisine) == [data |-> "cuisine:", arg |-> cuisine]

\* A Yes / No thanks button as it sits on the confirmation message of one
\* entry (the keyboard of every logged entry is a message of its own), and
\* the callback data a press of a button delivers.
OnConfirmationOf(entry_id, button) == [data |-> button.data, entry |-> entry_id]
CallbackData(button) ==
    IF "entry" \in DOMAIN button THEN [data |-> button.data] ELSE button

\* s[-n:]
LastN(s, n) == IF Len(s) <= n THEN s ELSE SubSeq(s, Len(s) - n + 1, Len(s))

\* A message sent to the chat: its content and its inline keyboard.
Message(content, keyboard) == [content |-> content, keyboard |-> keyboard]

\* chat_data of a chat no handler has written yet.
EmptyChatData ==
    [messages |-> <<>>, last_entry_id |-> NoId,
     last_entry_restaurant |-> NoneText, rejected_restaurants |-> <<>>,
     selected_cuisine |-> NoneText, suggested_restaurant_id |-> NoId]

Result(rs, es, cd, out, calls, state) ==
    [rs |-> rs, es |-> es, cd |-> cd, out |-> out, calls |-> calls,
     state |-> state, appended |-> <<>>]

\* Faulty variant of is_chat_allowed: the allow-list is never consulted.
is_chat_allowed_Open(allowed, chat_id) == TRUE

\* Config.is_chat_allowed
is_chat_allowed(allowed, chat_id) ==
    IF allowed = {} THEN TRUE ELSE chat_id \in allowed

\* Faulty variant of ResolveRestaurant: place data for a stored restaurant
\* without a place id is stored as a new row.
ResolveRestaurant_InsertsEnriched(rs, parsed, lookup) ==
    LET found == find_restaurant_by_name(rs, parsed.restaurant_name) IN
    IF found = NoId
    THEN IF lookup # NonePayload
         THEN find_or_create_restaurant(rs, parsed.restaurant_name, lookup)
         ELSE find_or_create_restaurant(rs, parsed.restaurant_name, NoPlace)
    ELSE IF ~TruthyStr(rs[found].google_place_id) /\ lookup # NonePayload
         THEN [restaurants |-> Append(rs, NewRow(rs[found].name, lookup)),
               restaurant |-> Restaurant(Len(rs) + 1,
                                         NewRow(rs[found].name, lookup))]
         ELSE [restaurants |-> rs, restaurant |-> Restaurant(found, rs[found])]

\* Faulty variant of ResolveRestaurant: a new name is stored only when the
\* places lookup returned data.
ResolveRestaurant_NeedsPlace(rs, parsed, lookup) ==
    LET found == find_restaurant_by_name(rs, parsed.restaurant_name) IN
    IF found = NoId
    THEN IF lookup # NonePayload
         THEN find_or_create_restaurant(rs, parsed.restaurant_name, lookup)
         ELSE [restaurants |-> rs,
               restaurant |-> Restaurant(NoId, NewRow(parsed.restaurant_name,
                                                      NoPlace))]
    ELSE IF ~TruthyStr(rs[found].google_place_id) /\ lookup # NonePayload
         THEN find_or_create_restaurant(rs, rs[found].name, lookup)
         ELSE [restaurants |-> rs, restaurant |-> Restaurant(found, rs[found])]

\* handlers/log_entry.py: handle_log_entry.  `lookup` is what
\* places.search_restaurant returns if it is called: a place or NonePayload.
ResolveRestaurant(rs, parsed, lookup) ==
    LET found == find_restaurant_by_name(rs, parsed.restaurant_name) IN
    IF found = NoId
    THEN IF lookup # NonePayload
         THEN find_or_create_restaurant(rs, parsed.restaurant_name, lookup)
         ELSE find_or_create_restaurant(rs, parsed.restaurant_name, NoPlace)
    ELSE IF ~TruthyStr(rs[found].google_place_id) /\ lookup # NonePayload
         THEN find_or_create_restaurant(rs, rs[found].name, lookup)
         ELSE [restaurants |-> rs, restaurant |-> Restaurant(found, rs[found])]

\* Faulty variant of handle_log_entry: the pointer records the name the
\* payload carries instead of the resolved restaurant's name.
handle_log_entry_RecordsParsedName(rs, es, cd, user, parsed, lookup) ==
    LET resolved == ResolveRestaurant(rs, parsed, lookup)
        restaurant == resolved.restaurant
        es2 == add_entry(es, restaurant.id, user, parsed.dish_name,
                         parsed.notes, parsed.sentiment,
                         parsed.sentiment_score, parsed.tags)
        cd2 == [cd EXCEPT !.last_entry_id = Len(es2),
                          !.last_entry_restaurant = parsed.restaurant_name]
        message == [msg |-> "Got it", dish |-> parsed.dish_name,
                    restaurant |-> restaurant.name,
                    cuisine |-> restaurant.cuisine, tags |-> parsed.tags]
    IN Result(resolved.restaurants, es2, cd2,
              <<Message(message, {OnConfirmationOf(Len(es2), ADD_ORDER_YES),
                                  OnConfirmationOf(Len(es2), ADD_ORDER_NO)})>>,
              <<"handle_log_entry">>, END)

handle_log_entry(rs, es, cd, user, parsed, lookup) ==
    LET resolved == ResolveRestaurant(rs, parsed, lookup)
        restaurant == resolved.restaurant
        es2 == add_entry(es, restaurant.id, user, parsed.dish_name,
                         parsed.notes, parsed.sentiment,
                         parsed.sentiment_score, parsed.tags)
        cd2 == [cd EXCEPT !.last_entry_id = Len(es2),
                          !.last_entry_restaurant = restaurant.name]
        message == [msg |-> "Got it", dish |-> parsed.dish_name,
                    restaurant |-> restaurant.name,
                    cuisine |-> restaurant.cuisine, tags |-> parsed.tags]
    IN Result(resolved.restaurants, es2, cd2,
              <<Message(message, {OnConfirmationOf(Len(es2), ADD_ORDER_YES),
                                  OnConfirmationOf(Len(es2), ADD_ORDER_NO)})>>,
              <<"handle_log_entry">>, END)

\* handlers/log_entry.py: handle_add_details
NamesMismatch(name, last_restaurant) ==
    LET mentioned == Strip(Lower(name))
        last == Strip(Lower(IF TruthyText(last_restaurant)
                            THEN last_restaurant ELSE <<>>))
    IN ~Contains(last, mentioned) /\ ~Contains(mentioned, last)

\* Faulty variant of MergeTags: the lists are concatenated.
MergeTags_Concat(existing, new) == existing \o new

\* list(set(existing_tags + parsed.tags)): the distinct tags, in some order.
MergeTags(existing, new) ==
    LET S == Range(existing \o new) IN
    CHOOSE t \in [1..Cardinality(S) -> S] : Range(t) = S

\* Faulty variant of BuildUpdates: a provided dish and provided notes
\* replace the stored ones.
BuildUpdates_Overwrite(entry, parsed) ==
    LET u0 == EmptyDict
        u1 == IF TruthyText(parsed.dish_name)
              THEN Put(u0, "dish", parsed.dish_name) ELSE u0
        u2 == IF TruthyText(parsed.notes)
              THEN Put(u1, "notes", parsed.notes) ELSE u1
        u3 == IF TruthyStr(parsed.sentiment)
              THEN Put(u2, "sentiment", parsed.sentiment) ELSE u2
        u4 == IF parsed.sentiment_score # NoneInt
              THEN Put(u3, "sentiment_score", parsed.sentiment_score) ELSE u3
        u5 == IF parsed.tags # <<>>
              THEN Put(u4, "tags", MergeTags(entry.tags, parsed.tags)) ELSE u4
    IN u5

\* The `updates` dict built from the stored entry and the payload.
BuildUpdates(entry, parsed) ==
    LET u0 == EmptyDict
        u1 == IF TruthyText(parsed.dish_name)
              THEN Put(u0, "dish",
                       IF TruthyText(entry.dish)
                       THEN entry.dish \o <<",", " ">> \o parsed.dish_name
                       ELSE parsed.dish_name)
              ELSE u0
        u2 == IF TruthyText(parsed.notes)
              THEN Put(u1, "notes",
                       IF TruthyText(entry.notes)
                       THEN entry.notes \o <<".", " ">> \o parsed.notes
                       ELSE parsed.notes)
              ELSE u1
        u3 == IF TruthyStr(parsed.sentiment)
              THEN Put(u2, "sentiment", parsed.sentiment) ELSE u2
        u4 == IF parsed.sentiment_score # NoneInt
              THEN Put(u3, "sentiment_score", parsed.sentiment_score) ELSE u3
        u5 == IF parsed.tags # <<>>
              THEN Put(u4, "tags", MergeTags(entry.tags, parsed.tags)) ELSE u4
    IN u5

\* The parts of the summary: "added X", "noted: Y", "tagged: Z".
ResponseParts(parsed) ==
    (IF TruthyText(parsed.dish_name) THEN {"added"} ELSE {})
    \cup (IF TruthyText(parsed.notes) THEN {"noted"} ELSE {})
    \cup (IF parsed.tags # <<>> THEN {"tagged"} ELSE {})

\* Faulty variant of handle_add_details: the named restaurant is not
\* compared with the last-logged one.
handle_add_details_NoNameCheck(es, cd, parsed) ==
    LET last_entry_id == cd.last_entry_id
        last_restaurant == cd.last_entry_restaurant
        entry == get_entry(es, last_entry_id)
        updates == BuildUpdates(entry, parsed)
    IN IF last_entry_id = NoId
       THEN [es |-> es,
             response |-> [msg |-> "I don't have a recent entry",
                           restaurant |-> parsed.restaurant_name]]
       ELSE IF entry = NonePayload
       THEN [es |-> es,
             response |-> [msg |-> "I couldn't find that entry anymore"]]
       ELSE [es |-> IF DOMAIN updates # {}
                    THEN update_entry(es, last_entry_id, updates) ELSE es,
             response |->
                IF ResponseParts(parsed) # {}
                THEN [msg |-> "Updated your entry", last |-> last_restaurant,
                      parts |-> ResponseParts(parsed)]
                ELSE [msg |-> "Got it! (though I'm not sure what to add)",
                      last |-> last_restaurant]]

handle_add_details(es, cd, parsed) ==
    LET last_entry_id == cd.last_entry_id
        last_restaurant == cd.last_entry_restaurant
        entry == get_entry(es, last_entry_id)
        updates == BuildUpdates(entry, parsed)
    IN IF last_entry_id = NoId
       THEN [es |-> es,
             response |-> [msg |-> "I don't have a recent entry",
                           restaurant |-> parsed.restaurant_name]]
       ELSE IF TruthyText(parsed.restaurant_name)
               /\ NamesMismatch(parsed.restaurant_name, last_restaurant)
       THEN [es |-> es,
             response |-> [msg |-> "Your last entry was at",
                           last |-> last_restaurant,
                           restaurant |-> parsed.restaurant_name]]
       ELSE IF entry = NonePayload
       THEN [es |-> es,
             response |-> [msg |-> "I couldn't find that entry anymore"]]
       ELSE [es |-> IF DOMAIN updates # {}
                    THEN update_entry(es, last_entry_id, updates) ELSE es,
             response |->
                IF ResponseParts(parsed) # {}
                THEN [msg |-> "Updated your entry", last |-> last_restaurant,
                      parts |-> ResponseParts(parsed)]
                ELSE [msg |-> "Got it! (though I'm not sure what to add)",
                      last |-> last_restaurant]]

\* handlers/query.py: handle_query.  `answer` is the text llm.answer_query
\* returns if it is called (the model's text, possibly empty, or the
\* "having trouble" text); a digest holds the ids of the entries read out.
EntriesOf(es, restaurant_id) ==
    {e \in DOMAIN es : es[e].restaurant_id = restaurant_id}

handle_query(rs, es, parsed, answer) ==
    LET found == find_restaurant_by_name(rs, parsed.restaurant_name)
        hits == search_entries(rs, es, parsed.cuisine, parsed.sentiment,
                               parsed.search_term)
    IN IF TruthyText(parsed.restaurant_name)
       THEN IF found = NoId
            THEN [msg |-> "I don't have any records for",
                  restaurant |-> parsed.restaurant_name]
            ELSE IF EntriesOf(es, found) = {}
            THEN [msg |-> "no logged visits yet", restaurant |-> rs[found].name]
            ELSE [msg |-> "answer", text |-> answer,
                  digest |-> EntriesOf(es, found)]
       ELSE IF hits = {}
            THEN [msg |-> "I don't have any entries yet"]
            ELSE [msg |-> "answer", text |-> answer, digest |-> hits]

\* `if response:` in handle_message: an empty answer text is falsy.
TruthyResponse(response) ==
    ~(response.msg = "answer" /\ response.text = "")

\* handlers/what_to_eat.py: start_what_to_eat.  The keyboard offers the
\* stored cuisines (the first 8; the tables of this model hold fewer), "any"
\* and cancel.
start_what_to_eat(rs, es, cd) ==
    LET cuisines == get_distinct_cuisines(rs) IN
    IF cuisines = {}
    THEN Result(rs, es, cd,
                <<Message([msg |-> "You haven't saved any restaurants yet!"], {})>>,
                <<"start_what_to_eat">>, END)
    ELSE Result(rs, es, [cd EXCEPT !.rejected_restaurants = <<>>],
                <<Message([msg |-> "What kind of food are you in the mood for?"],
                          {CuisineButton(x) : x \in cuisines}
                              \cup {CuisineButton(ANY_CUISINE), CANCEL})>>,
                <<"start_what_to_eat">>, SELECTING_CUISINE)

\* Faulty variant of DrawOutcomes: the exclusion list is not applied.
DrawOutcomes_IgnoreExclusions(rs, es, cuisine, exclude_ids) ==
    IF PositiveCandidates(rs, es, cuisine, {}) = {} THEN {NoId}
    ELSE PositiveCandidates(rs, es, cuisine, {})

\* What get_random_positive_restaurant may return: a candidate's id, or NoId
\* when there is none.  An empty exclusion list excludes nothing.
DrawOutcomes(rs, es, cuisine, exclude_ids) ==
    IF PositiveCandidates(rs, es, cuisine, Range(exclude_ids)) = {} THEN {NoId}
    ELSE PositiveCandidates(rs, es, cuisine, Range(exclude_ids))

\* Faulty variant of suggest_restaurant: an empty draw reports exhaustion
\* but keeps the conversation in CONFIRMING.
suggest_restaurant_StaysOpen(rs, es, cd, drawn) ==
    IF drawn = NoId
    THEN Result(rs, es, cd,
                <<Message([msg |-> "I don't have any more restaurants to suggest!",
                           cuisine |-> cd.selected_cuisine], {})>>,
                <<"suggest_restaurant">>, CONFIRMING)
    ELSE Result(rs, es, [cd EXCEPT !.suggested_restaurant_id = drawn],
                <<Message([msg |-> "How about", restaurant |-> rs[drawn].name,
                           digest |-> EntriesOf(es, drawn)],
                          {ACCEPT, REJECT, CANCEL})>>,
                <<"suggest_restaurant">>, CONFIRMING)

\* suggest_restaurant, given the id `drawn` that the random draw returned.
suggest_restaurant(rs, es, cd, drawn) ==
    IF drawn = NoId
    THEN Result(rs, es, cd,
                <<Message([msg |-> "I don't have any more restaurants to suggest!",
                           cuisine |-> cd.selected_cuisine], {})>>,
                <<"suggest_restaurant">>, END)
    ELSE Result(rs, es, [cd EXCEPT !.suggested_restaurant_id = drawn],
                <<Message([msg |-> "How about", restaurant |-> rs[drawn].name,
                           digest |-> EntriesOf(es, drawn)],
                          {ACCEPT, REJECT, CANCEL})>>,
                <<"suggest_restaurant">>, CONFIRMING)

\* data.replace(CUISINE_PREFIX, ""), then "any" -> None.
SelectedCuisine(button) ==
    IF button.data = "cuisine:"
    THEN (IF button.arg = ANY_CUISINE THEN NoneText ELSE button.arg)
    ELSE <<button.data>>

\* chat_data after handle_cuisine_selection stored the filter (not on cancel).
AfterCuisineSelection(cd, button) ==
    IF button = CANCEL THEN cd
    ELSE [cd EXCEPT !.selected_cuisine = SelectedCuisine(button)]

handle_cuisine_selection(rs, es, cd, button, drawn) ==
    IF button = CANCEL
    THEN Result(rs, es, cd, <<Message([msg |-> "No problem!"], {})>>,
                <<"handle_cuisine_selection">>, END)
    ELSE LET r == suggest_restaurant(rs, es, AfterCuisineSelection(cd, button), drawn)
         IN [r EXCEPT !.calls = <<"handle_cuisine_selection">> \o @]

\* chat_data after handle_confirmation appended the rejected proposal.
AfterConfirmation(cd, button) ==
    IF button = REJECT /\ cd.suggested_restaurant_id # NoId
    THEN [cd EXCEPT !.rejected_restaurants =
                        Append(@, cd.suggested_restaurant_id)]
    ELSE cd

\* Faulty variant of handle_confirmation: an accepted proposal is recorded
\* as a visit.
handle_confirmation_LogsAccept(rs, es, cd, button, drawn) ==
    IF button = CANCEL
    THEN Result(rs, es, cd, <<Message([msg |-> "No problem!"], {})>>,
                <<"handle_confirmation">>, END)
    ELSE IF button = ACCEPT
    THEN Result(rs,
                add_entry(es, cd.suggested_restaurant_id, 1, NoneText,
                          NoneText, "neutral", NoneInt, <<>>),
                cd, <<Message([msg |-> "Great choice!"], {})>>,
                <<"handle_confirmation">>, END)
    ELSE IF button = REJECT
    THEN LET r == suggest_restaurant(rs, es, AfterConfirmation(cd, button), drawn)
         IN [r EXCEPT !.calls = <<"handle_confirmation">> \o @]
    ELSE Result(rs, es, cd, <<>>, <<"handle_confirmation">>, CONFIRMING)

handle_confirmation(rs, es, cd, button, drawn) ==
    IF button = CANCEL
    THEN Result(rs, es, cd, <<Message([msg |-> "No problem!"], {})>>,
                <<"handle_confirmation">>, END)
    ELSE IF button = ACCEPT
    THEN Result(rs, es, cd, <<Message([msg |-> "Great choice!"], {})>>,
                <<"handle_confirmation">>, END)
    ELSE IF button = REJECT
    THEN LET r == suggest_restaurant(rs, es, AfterConfirmation(cd, button), drawn)
         IN [r EXCEPT !.calls = <<"handle_confirmation">> \o @]
    ELSE Result(rs, es, cd, <<>>, <<"handle_confirmation">>, CONFIRMING)

\* handlers/log_entry.py: handle_order_callback
handle_order_callback(rs, es, cd, button) ==
    IF button = ADD_ORDER_NO
    THEN Result(rs, es, cd, <<>>, <<"handle_order_callback">>, END)
    ELSE IF button = ADD_ORDER_YES
    THEN Result(rs, es, cd,
                <<Message([msg |-> "What's your go-to order at",
                           restaurant |-> cd.last_entry_restaurant], {})>>,
                <<"handle_order_callback">>, WAITING_FOR_ORDER)
    ELSE Result(rs, es, cd, <<>>, <<"handle_order_callback">>, END)

\* Faulty variant of handle_exact_order: the conversation stays open after
\* the order was saved.
handle_exact_order_StaysOpen(rs, es, cd, text) ==
    IF cd.last_entry_id = NoId
    THEN Result(rs, es, cd,
                <<Message([msg |-> "Sorry, I lost track of which entry to update."], {})>>,
                <<"handle_exact_order">>, END)
    ELSE Result(rs, update_entry(es, cd.last_entry_id, [exact_order |-> text]), cd,
                <<Message([msg |-> "Saved your order at",
                           restaurant |-> cd.last_entry_restaurant,
                           order |-> text], {})>>,
                <<"handle_exact_order">>, WAITING_FOR_ORDER)

\* handlers/log_entry.py: handle_exact_order
handle_exact_order(rs, es, cd, text) ==
    IF cd.last_entry_id = NoId
    THEN Result(rs, es, cd,
                <<Message([msg |-> "Sorry, I lost track of which entry to update."], {})>>,
                <<"handle_exact_order">>, END)
    ELSE Result(rs, update_entry(es, cd.last_entry_id, [exact_order |-> text]), cd,
                <<Message([msg |-> "Saved your order at",
                           restaurant |-> cd.last_entry_restaurant,
                           order |-> text], {})>>,
                <<"handle_exact_order">>, END)

\* handlers/query.py: handle_search_command; args is the command's argument
\* text, <<>> when there is none.
handle_search_command(rs, es, cd, args, answer) ==
    LET hits == search_entries(rs, es, NoneText, None, args) IN
    IF args = <<>>
    THEN Result(rs, es, cd, <<Message([msg |-> "Usage: /search <term>"], {})>>,
                <<"handle_search_command">>, END)
    ELSE IF hits = {}
    THEN Result(rs, es, cd,
                <<Message([msg |-> "No entries found matching", term |-> args], {})>>,
                <<"handle_search_command">>, END)
    ELSE Result(rs, es, cd,
                <<Message([msg |-> "answer", text |-> answer, digest |-> hits], {})>>,
                <<"handle_search_command">>, END)

(***************************************************************************)
(* bot.py: handle_message, the router                                      *)
(***************************************************************************)

UserTurn(text) == [role |-> "user", content |-> [text |-> text]]
AssistantTurn(response) == [role |-> "assistant", content |-> response]

\* Faulty variant of LowConfidence: the clarification is asked only when
\* the intent is UNKNOWN.
LowConfidence_OnlyUnknown(analysis) ==
    /\ analysis.intent = "unknown"
    /\ analysis.confidence < ConfidenceThreshold
    /\ TruthyStr(analysis.clarification_needed)

\* analysis.confidence < 0.5 and analysis.clarification_needed
LowConfidence(analysis) ==
    analysis.confidence < ConfidenceThreshold
    /\ TruthyStr(analysis.clarification_needed)

Greeting == [msg |-> "Hey! Ready to log some food or find somewhere to eat?"]
CapabilityReminder == [msg |-> "I'm not sure what you mean. I can help you:"]

\* The branch of the if/elif chain that runs: the handler's name, or
\* "none" when no branch matches.
RouteOf(analysis) ==
    IF analysis.intent = "log_entry" /\ analysis.log_entry # NonePayload
    THEN "handle_log_entry"
    ELSE IF analysis.intent = "add_details" /\ analysis.details # NonePayload
    THEN "handle_add_details"
    ELSE IF analysis.intent = "query_restaurant" /\ analysis.query # NonePayload
    THEN "handle_query"
    ELSE IF analysis.intent = "query_general" /\ analysis.query # NonePayload
    THEN "handle_query"
    ELSE IF analysis.intent = "what_to_eat" THEN "start_what_to_eat"
    ELSE IF analysis.intent = "greeting" THEN "greeting"
    ELSE IF analysis.intent = "unknown" THEN "unknown"
    ELSE "none"

\* Faulty variant of Respond: the reply is sent but not appended.
Respond_NoAppend(rs, es, cd, messages, response, calls) ==
    IF TruthyResponse(response)
    THEN Result(rs, es, cd, <<Message(response, {})>>, calls, END)
    ELSE Result(rs, es, cd, <<>>, calls, END)

\* The tail of handle_message: a truthy response is appended to the local
\* (untruncated) message list, stored truncated, and sent.
Respond(rs, es, cd, messages, response, calls) ==
    IF TruthyResponse(response)
    THEN [Result(rs, es,
                 [cd EXCEPT !.messages =
                     LastN(Append(messages, AssistantTurn(response)),
                           HistoryWindow)],
                 <<Message(response, {})>>, calls, END)
          EXCEPT !.appended = <<AssistantTurn(response)>>]
    ELSE Result(rs, es, cd, <<>>, calls, END)

\* handle_message from the analysis on; `messages` is the local list that
\* holds the user turn, cd the chat_data after the truncated list was stored.
Dispatch(rs, es, cd, messages, user, analysis, lookup, answer) ==
    LET route == RouteOf(analysis) IN
    IF LowConfidence(analysis)
    THEN Result(rs, es, cd,
                <<Message([msg |-> analysis.clarification_needed], {})>>,
                <<>>, END)
    ELSE IF route = "handle_log_entry"
    THEN handle_log_entry(rs, es, cd, user, analysis.log_entry, lookup)
    ELSE IF route = "handle_add_details"
    THEN Respond(rs, handle_add_details(es, cd, analysis.details).es, cd,
                 messages, handle_add_details(es, cd, analysis.details).response,
                 <<"handle_add_details">>)
    ELSE IF route = "handle_query"
    THEN Respond(rs, es, cd, messages,
                 handle_query(rs, es, analysis.query, answer), <<"handle_query">>)
    ELSE IF route = "start_what_to_eat"
    THEN start_what_to_eat(rs, es, cd)
    ELSE IF route = "greeting"
    THEN Respond(rs, es, cd, messages, Greeting, <<"greeting">>)
    ELSE IF route = "unknown"
    THEN Respond(rs, es, cd, messages, CapabilityReminder, <<"unknown">>)
    ELSE Result(rs, es, cd, <<>>, <<>>, END)

\* What the classifier call of a turn was given and what came of it.
NotCalled == [called |-> FALSE]
Called(context, res) ==
    [called |-> TRUE, context |-> context, attempts |-> res.calls,
     raised |-> res.raised, failed |-> res.failed, analysis |-> res.analysis]

\* The messages list handle_message works on, and chat_data once the
\* truncated list is stored.
WithUserTurn(cd, text) == Append(cd.messages, UserTurn(text))
\* Faulty variant of StoreHistory: the list is stored untruncated.
StoreHistory_NoTrim(cd, messages) == [cd EXCEPT !.messages = messages]

StoreHistory(cd, messages) ==
    [cd EXCEPT !.messages = LastN(messages, HistoryWindow)]

\* The context turns analyze_message forwards to the model.
ClassifierContext(messages) == LastN(messages, ContextWindow)

\* handle_message: the handler's result and the classifier call (llm).
handle_message(allowed, rs, es, cd, chat_id, user, text, run, lookup, answer) ==
    LET messages == WithUserTurn(cd, text)
        cd1 == StoreHistory(cd, messages)
        res == analyze_message(run)
    IN IF ~is_chat_allowed(allowed, chat_id)
       THEN [r |-> Result(rs, es, cd, <<>>, <<>>, END), llm |-> NotCalled]
       ELSE IF res.raised
       THEN [r |-> Result(rs, es, cd1, <<>>, <<>>, END),
             llm |-> Called(ClassifierContext(messages), res)]
       ELSE [r |-> Dispatch(rs, es, cd1, messages, user, res.analysis,
                            lookup, answer),
             llm |-> Called(ClassifierContext(messages), res)]

(***************************************************************************)
(* The state machine                                                       *)
(***************************************************************************)

Chats == {1, 2}
Users == {1}

VARIABLES
    allowed_chat_ids,  \* Config.allowed_chat_ids, fixed at start-up
    restaurants,       \* the restaurants table, row i at index i
    entries,           \* the entries table
    chat_data,         \* context.chat_data of every chat
    order_state,       \* the exact-order ConversationHandler, per (chat, user)
    wte_state,         \* the what-to-eat ConversationHandler, per (chat, user)
    buttons,           \* per chat: the buttons of the keyboards sent to it
    all_turns,         \* per chat: every turn passed to messages.append
    ev,                \* the inbound event handled by the last step
    sent,              \* the messages the last step sent or edited
    calls,             \* the handlers the last step ran
    llm,               \* the classifier call of the last step
    proposed,          \* per chat: the restaurants suggest_restaurant proposed
                       \* since start_what_to_eat last reset the rejected list
    turns              \* the number of events handled

vars ==
    <<allowed_chat_ids, restaurants, entries, chat_data, order_state,
      wte_state, buttons, all_turns, ev, sent, calls, llm, proposed, turns>>

InitWith(allowed) ==
    /\ allowed_chat_ids = allowed
    /\ restaurants = <<>>
    /\ entries = <<>>
    /\ chat_data = [c \in Chats |-> EmptyChatData]
    /\ order_state = [c \in Chats |-> [u \in Users |-> END]]
    /\ wte_state = [c \in Chats |-> [u \in Users |-> END]]
    /\ buttons = [c \in Chats |-> {}]
    /\ all_turns = [c \in Chats |-> <<>>]
    /\ ev = [kind |-> "start-up"]
    /\ sent = <<>>
    /\ calls = <<>>
    /\ llm = NotCalled
    /\ proposed = [c \in Chats |-> <<>>]
    /\ turns = 0

Keyboards(out) == UNION {out[i].keyboard : i \in DOMAIN out}

\* The proposals of a chat's current run of the suggestion flow after a
\* handler's result r: start_what_to_eat opens a run when it resets the
\* rejected list, suggest_restaurant adds the restaurant it proposes.
ProposedAfter(before, r) ==
    IF "start_what_to_eat" \in Range(r.calls) /\ r.state = SELECTING_CUISINE
    THEN <<>>
    ELSE IF "suggest_restaurant" \in Range(r.calls) /\ r.state = CONFIRMING
    THEN Append(before, r.cd.suggested_restaurant_id)
    ELSE before

\* Faulty variant of Apply: chat_data is one dict shared by all chats.
Apply_SharedChatData(c, r, event, classifier, appended) ==
    /\ restaurants' = r.rs
    /\ entries' = r.es
    /\ chat_data' = [b \in Chats |-> r.cd]
    /\ buttons' = [buttons EXCEPT ![c] = @ \cup Keyboards(r.out)]
    /\ all_turns' = [all_turns EXCEPT ![c] = @ \o appended]
    /\ ev' = event
    /\ sent' = [i \in DOMAIN r.out |-> [chat |-> c, content |-> r.out[i].content]]
    /\ calls' = r.calls
    /\ llm' = classifier
    /\ proposed' = [proposed EXCEPT ![c] = ProposedAfter(@, r)]
    /\ turns' = turns + 1
    /\ UNCHANGED allowed_chat_ids

\* The effect of a handler's result r on the state, for an event of chat c.
Apply(c, r, event, classifier, appended) ==
    /\ restaurants' = r.rs
    /\ entries' = r.es
    /\ chat_data' = [chat_data EXCEPT ![c] = r.cd]
    /\ buttons' = [buttons EXCEPT ![c] = @ \cup Keyboards(r.out)]
    /\ all_turns' = [all_turns EXCEPT ![c] = @ \o appended]
    /\ ev' = event
    /\ sent' = [i \in DOMAIN r.out |-> [chat |-> c, content |-> r.out[i].content]]
    /\ calls' = r.calls
    /\ llm' = classifier
    /\ proposed' = [proposed EXCEPT ![c] = ProposedAfter(@, r)]
    /\ turns' = turns + 1
    /\ UNCHANGED allowed_chat_ids

\* The handler a turn with classifier outcomes `run` reaches ("none" when
\* the call raises or the turn is spent on a clarification).
Routes(run) ==
    IF analyze_message(run).raised THEN "none"
    ELSE IF LowConfidence(analyze_message(run).analysis) THEN "none"
    ELSE RouteOf(analyze_message(run).analysis)

\* A text message outside WAITING_FOR_ORDER: MessageHandler(handle_message).
RoutedText(c, u, text, run, lookup, answer) ==
    /\ order_state[c][u] # WAITING_FOR_ORDER
    /\ LET h == handle_message(allowed_chat_ids, restaurants, entries,
                               chat_data[c], c, u, text, run, lookup, answer)
       IN Apply(c, h.r,
                [kind |-> "text", chat |-> c, user |-> u, text |-> text,
                 run |-> run, lookup |-> lookup],
                h.llm,
                (IF h.llm.called THEN <<UserTurn(text)>> ELSE <<>>)
                    \o h.r.appended)
    /\ UNCHANGED <<order_state, wte_state>>

\* A text message in WAITING_FOR_ORDER: the order conversation takes it.
ExactOrderText(c, u, text) ==
    /\ order_state[c][u] = WAITING_FOR_ORDER
    /\ LET r == handle_exact_order(restaurants, entries, chat_data[c], text)
       IN /\ Apply(c, r,
                   [kind |-> "text", chat |-> c, user |-> u, text |-> text],
                   NotCalled, <<>>)
          /\ order_state' = [order_state EXCEPT ![c][u] = r.state]
    /\ UNCHANGED wte_state

\* /start and /help: CommandHandler(start_command), (help_command).
StartCommand(c, u) ==
    /\ Apply(c, Result(restaurants, entries, chat_data[c],
                       <<Message([msg |-> "I'm your Food Memory Bot."], {})>>,
                       <<"start_command">>, END),
             [kind |-> "command", chat |-> c, user |-> u, command |-> "start"],
             NotCalled, <<>>)
    /\ UNCHANGED <<order_state, wte_state>>

HelpCommand(c, u) ==
    /\ Apply(c, Result(restaurants, entries, chat_data[c],
                       <<Message([msg |-> "Food Memory Bot Commands:"], {})>>,
                       <<"help_command">>, END),
             [kind |-> "command", chat |-> c, user |-> u, command |-> "help"],
             NotCalled, <<>>)
    /\ UNCHANGED <<order_state, wte_state>>

\* /search <args>: CommandHandler(handle_search_command).
SearchCommand(c, u, args, answer) ==
    /\ Apply(c, handle_search_command(restaurants, entries, chat_data[c],
                                      args, answer),
             [kind |-> "command", chat |-> c, user |-> u, command |-> "search"],
             NotCalled, <<>>)
    /\ UNCHANGED <<order_state, wte_state>>

\* /whattoeat: the entry point of the what-to-eat conversation, taken only
\* when (chat, user) is in no such conversation.
WhatToEatCommand(c, u) ==
    /\ wte_state[c][u] = END
    /\ LET r == start_what_to_eat(restaurants, entries, chat_data[c])
       IN /\ Apply(c, r,
                   [kind |-> "command", chat |-> c, user |-> u,
                    command |-> "whattoeat"],
                   NotCalled, <<>>)
          /\ wte_state' = [wte_state EXCEPT ![c][u] = r.state]
    /\ UNCHANGED order_state

\* /cancel: the fallback of the what-to-eat conversation (lambda -> END).
\* No other handler takes the command: the order conversation has no
\* fallbacks and its state takes non-command text only, and outside a
\* what-to-eat conversation the update is handled by nobody.
CancelCommand(c, u) ==
    /\ Apply(c, Result(restaurants, entries, chat_data[c], <<>>,
                       IF wte_state[c][u] # END THEN <<"cancel">> ELSE <<>>,
                       END),
             [kind |-> "command", chat |-> c, user |-> u, command |-> "cancel"],
             NotCalled, <<>>)
    /\ wte_state' = [wte_state EXCEPT ![c][u] = END]
    /\ UNCHANGED order_state

\* A press of a Yes / No thanks button while (chat, user) is in no order
\* conversation: the entry point of the order conversation.
OrderCallback(c, u, button) ==
    /\ button \in buttons[c]
    /\ CallbackData(button) \in {ADD_ORDER_YES, ADD_ORDER_NO}
    /\ order_state[c][u] = END
    /\ LET r == handle_order_callback(restaurants, entries, chat_data[c],
                                      CallbackData(button))
       IN /\ Apply(c, r,
                   [kind |-> "button", chat |-> c, user |-> u, button |-> button],
                   NotCalled, <<>>)
          /\ order_state' = [order_state EXCEPT ![c][u] = r.state]
    /\ UNCHANGED wte_state

\* The order conversation passes on every button press it has no handler
\* for; the what-to-eat conversation then takes any press in its states.
PassedToWhatToEat(c, u, button) ==
    CallbackData(button) \in {ADD_ORDER_YES, ADD_ORDER_NO}
        => order_state[c][u] # END

CuisineSelection(c, u, button) ==
    /\ button \in buttons[c]
    /\ PassedToWhatToEat(c, u, button)
    /\ wte_state[c][u] = SELECTING_CUISINE
    /\ \E drawn \in DrawOutcomes(
                      restaurants, entries,
                      AfterCuisineSelection(chat_data[c],
                                            CallbackData(button)).selected_cuisine,
                      chat_data[c].rejected_restaurants) :
         LET r == handle_cuisine_selection(restaurants, entries, chat_data[c],
                                           CallbackData(button), drawn)
         IN /\ Apply(c, r,
                     [kind |-> "button", chat |-> c, user |-> u,
                      button |-> button],
                     NotCalled, <<>>)
            /\ wte_state' = [wte_state EXCEPT ![c][u] = r.state]
    /\ UNCHANGED order_state

Confirmation(c, u, button) ==
    /\ button \in buttons[c]
    /\ PassedToWhatToEat(c, u, button)
    /\ wte_state[c][u] = CONFIRMING
    /\ \E drawn \in DrawOutcomes(
                      restaurants, entries, chat_data[c].selected_cuisine,
                      AfterConfirmation(chat_data[c],
                                        CallbackData(button)).rejected_restaurants) :
         LET r == handle_confirmation(restaurants, entries, chat_data[c],
                                      CallbackData(button), drawn)
         IN /\ Apply(c, r,
                     [kind |-> "button", chat |-> c, user |-> u,
                      button |-> button],
                     NotCalled, <<>>)
            /\ wte_state' = [wte_state EXCEPT ![c][u] = r.state]
    /\ UNCHANGED order_state

\* conversation_timeout=120 of the order conversation: no TIMEOUT handler
\* is registered, the conversation just ends.
OrderTimeout(c, u) ==
    /\ order_state[c][u] = WAITING_FOR_ORDER
    /\ Apply(c, Result(restaurants, entries, chat_data[c], <<>>, <<>>, END),
             [kind |-> "timeout", chat |-> c, user |-> u,
              conversation |-> "order"],
             NotCalled, <<>>)
    /\ order_state' = [order_state EXCEPT ![c][u] = END]
    /\ UNCHANGED wte_state

\* Faulty variant of WhatToEatTimeout: the timeout also empties chat_data.
WhatToEatTimeout_Clears(c, u) ==
    /\ wte_state[c][u] # END
    /\ Apply(c, Result(restaurants, entries, EmptyChatData,
                       IF wte_state[c][u] = CONFIRMING
                       THEN <<Message([msg |-> "This suggestion has expired."], {})>>
                       ELSE <<>>,
                       <<"timeout">>, END),
             [kind |-> "timeout", chat |-> c, user |-> u,
              conversation |-> "what_to_eat"],
             NotCalled, <<>>)
    /\ wte_state' = [wte_state EXCEPT ![c][u] = END]
    /\ UNCHANGED order_state

\* conversation_timeout=300 of the what-to-eat conversation: timeout() edits
\* the last message when the last update was a button press (CONFIRMING is
\* only entered by one; SELECTING_CUISINE is entered by the command).
WhatToEatTimeout(c, u) ==
    /\ wte_state[c][u] # END
    /\ Apply(c, Result(restaurants, entries, chat_data[c],
                       IF wte_state[c][u] = CONFIRMING
                       THEN <<Message([msg |-> "This suggestion has expired."], {})>>
                       ELSE <<>>,
                       <<"timeout">>, END),
             [kind |-> "timeout", chat |-> c, user |-> u,
              conversation |-> "what_to_eat"],
             NotCalled, <<>>)
    /\ wte_state' = [wte_state EXCEPT ![c][u] = END]
    /\ UNCHANGED order_state

(***************************************************************************)
(* Inputs: the texts, classifier outputs and place records the             *)
(* specifications below draw from                                          *)
(***************************************************************************)

NameAb == <<"A", "b">>
NameA == <<"a">>
NameB == <<"b">>
DishP == <<"p">>
DishQ == <<"q">>
NotesN == <<"n">>
NotesM == <<"m">>
Thai == <<"T">>

PlaceThai ==
    [place_id |-> "place-1", address |-> "1 Main St", cuisine |-> Thai,
     price_level |-> 2, dine_in |-> TRUE]
PlaceUntyped ==
    [place_id |-> "place-2", address |-> "2 Side St", cuisine |-> NoneText,
     price_level |-> 0, dine_in |-> FALSE]

Answers == {"You had the pad thai.", ""}

LogBase ==
    [restaurant_name |-> NameAb, dish_name |-> DishP,
     sentiment |-> Str("positive"), sentiment_score |-> 8, tags |-> <<"t1">>]

DetailsBase == [dish_name |-> DishQ]

Out(data) == <<[data |-> data]>>
JsonError == [err |-> "json"]
ApiError == [err |-> "api"]

Sure(intent) == [intent |-> intent, confidence |-> 9]

\* A populated payload of every kind, whatever the intent.
Populated(d) ==
    Put(Put(Put(d, "log_entry", LogBase), "details", DetailsBase),
        "query", [restaurant_name |-> NameA])

\* The classifier outcomes of the router specification.
RouterRuns ==
    {Out(Populated(Sure(i))) : i \in Intents}
    \cup {Out(Sure(i)) : i \in Intents}
    \cup {Out(Populated([intent |-> i, confidence |-> 3,
                         clarification_needed |-> "Which place do you mean?"])) :
            i \in Intents}
    \cup {Out(Put(Sure("log_entry"), "log_entry", [restaurant_name |-> <<>>])),
          Out(Put(Sure("log_entry"), "log_entry", [dish_name |-> DishP])),
          Out(Put(Sure("log_entry"), "log_entry", EmptyDict)),
          Out(Put(Sure("add_details"), "details", EmptyDict)),
          Out(Populated([intent |-> "log_entry", confidence |-> 3])),
          Out(Populated([intent |-> "log_entry", confidence |-> 3,
                         clarification_needed |-> ""])),
          Out(Populated([intent |-> "greeting", confidence |-> 5,
                         clarification_needed |-> "Which place do you mean?"])),
          Out([intent |-> "unknown", confidence |-> 0,
               clarification_needed |-> "Could you say more?"]),
          Out([intent |-> "order_pizza", confidence |-> 9]),
          <<JsonError>>, <<ApiError>>,
          <<ApiError, ApiError, JsonError>>,
          <<JsonError, JsonError, ApiError>>,
          <<JsonError, ApiError, [data |-> Sure("greeting")]>>}

\* The place lookup of a turn: made only on the way to handle_log_entry.
LookupsOf(run, lookups) ==
    IF Routes(run) = "handle_log_entry" THEN lookups ELSE {NonePayload}

\* The answer phrasing of a turn: made only by handle_query.
AnswersOf(run, answers) ==
    IF Routes(run) = "handle_query" THEN answers ELSE {""}

TextTurn(c, u, text, runs, lookups, answers) ==
    \E run \in runs :
        \E lookup \in LookupsOf(run, lookups), answer \in AnswersOf(run, answers) :
            RoutedText(c, u, text, run, lookup, answer)

(***************************************************************************)
(* SpecRouter: free-text turns of one allowed chat through handle_message  *)
(***************************************************************************)

MaxRouterTurns == 3

InitRouter == InitWith({})

NextRouter ==
    /\ turns < MaxRouterTurns
    /\ TextTurn(1, 1, "hello", RouterRuns, {NonePayload, PlaceThai}, Answers)

SpecRouter == InitRouter /\ [][NextRouter]_vars

(***************************************************************************)
(* SpecHistory: one chat talks long enough to overflow the history window  *)
(***************************************************************************)

MaxHistoryTurns == 7

HistoryRuns ==
    {Out(Sure("greeting")),
     Out([intent |-> "unknown", confidence |-> 3,
          clarification_needed |-> "Could you say more?"]),
     <<ApiError>>}

InitHistory == InitWith({})

NextHistory ==
    /\ turns < MaxHistoryTurns
    /\ \E text \in {"hi", "yo"} :
          TextTurn(1, 1, text, HistoryRuns, {NonePayload}, {""})

SpecHistory == InitHistory /\ [][NextHistory]_vars

(***************************************************************************)
(* SpecAmend: two chats log visits and amend them                          *)
(***************************************************************************)

MaxAmendTurns == 3

NameBa == <<"B", "a">>
NamePadded == <<" ", "A", "B", " ">>

AmendRuns ==
    {Out(Put(Sure("log_entry"), "log_entry", LogBase)),
     Out(Put(Sure("log_entry"), "log_entry",
             [restaurant_name |-> NameB, notes |-> NotesN])),
     Out(Put(Sure("add_details"), "details", DetailsBase)),
     Out(Put(Sure("add_details"), "details",
             [notes |-> NotesM, sentiment |-> Str("negative"),
              sentiment_score |-> 0])),
     Out(Put(Sure("add_details"), "details", [sentiment |-> Num(-7)])),
     Out(Put(Sure("add_details"), "details",
             [restaurant_name |-> NameA, notes |-> NotesM])),
     Out(Put(Sure("add_details"), "details",
             [restaurant_name |-> NamePadded, tags |-> <<"t2">>])),
     Out(Put(Sure("add_details"), "details",
             [restaurant_name |-> NameBa, dish_name |-> DishQ,
              notes |-> NotesM, sentiment_score |-> 2]))}

InitAmend == InitWith({})

NextAmend ==
    /\ turns < MaxAmendTurns
    /\ \E c \in Chats :
          TextTurn(c, 1, "and the soup", AmendRuns, {NonePayload}, {""})

SpecAmend == InitAmend /\ [][NextAmend]_vars

(***************************************************************************)
(* Spec: every handler the application registers, with and without an      *)
(* allow-list                                                              *)
(***************************************************************************)

MaxTurns == 5

AllowLists == {{}, {1}}

Runs ==
    {Out(Put(Sure("log_entry"), "log_entry", LogBase)),
     Out(Sure("what_to_eat"))}

Init == \E allowed \in AllowLists : InitWith(allowed)

Next ==
    \/ \E c \in Chats, u \in Users :
          /\ turns < MaxTurns
          /\ TextTurn(c, u, "thai place was great", Runs, {PlaceThai}, {""})
    \/ \E c \in Chats, u \in Users :
          turns < MaxTurns /\ ExactOrderText(c, u, "pad thai, mild")
    \/ \E c \in Chats, u \in Users :
          turns < MaxTurns /\ StartCommand(c, u)
    \/ \E c \in Chats, u \in Users :
          turns < MaxTurns /\ HelpCommand(c, u)
    \/ \E c \in Chats, u \in Users :
          /\ turns < MaxTurns
          /\ SearchCommand(c, u, DishP, "You had the pad thai.")
    \/ \E c \in Chats, u \in Users :
          turns < MaxTurns /\ WhatToEatCommand(c, u)
    \/ \E c \in Chats, u \in Users :
          turns < MaxTurns /\ CancelCommand(c, u)
    \/ \E c \in Chats, u \in Users :
          turns < MaxTurns /\ \E button \in buttons[c] : OrderCallback(c, u, button)
    \/ \E c \in Chats, u \in Users :
          turns < MaxTurns /\ \E button \in buttons[c] : CuisineSelection(c, u, button)
    \/ \E c \in Chats, u \in Users :
          turns < MaxTurns /\ \E button \in buttons[c] : Confirmation(c, u, button)
    \/ \E c \in Chats, u \in Users :
          turns < MaxTurns /\ OrderTimeout(c, u)
    \/ \E c \in Chats, u \in Users :
          turns < MaxTurns /\ WhatToEatTimeout(c, u)

Spec == Init /\ [][Next]_vars

(***************************************************************************)
(* Claims about the router, checked under SpecRouter                       *)
(***************************************************************************)

\* C1: on a routed text turn whose analysis has confidence below 0.5 and a
\* non-empty clarification text, the clarification is the only reply, no
\* flow runs, no restaurant or entry is created or updated, and the chat's
\* last-entry pointer, rejected set and suggestion state are unchanged.
C1_LowConfidenceShortCircuit ==
    [][(/\ ev'.kind = "text"
        /\ llm'.called
        /\ ~llm'.raised
        /\ llm'.analysis.confidence < 5
        /\ llm'.analysis.clarification_needed \notin {None, ""})
       => (/\ sent' = <<[chat |-> ev'.chat,
                         content |-> [msg |-> llm'.analysis.clarification_needed]]>>
           /\ calls' = <<>>
           /\ restaurants' = restaurants
           /\ entries' = entries
           /\ order_state' = order_state
           /\ wte_state' = wte_state
           /\ [chat_data'[ev'.chat] EXCEPT !.messages = <<>>]
                = [chat_data[ev'.chat] EXCEPT !.messages = <<>>])]_vars

\* A low-confidence turn that carries a usable LOG_ENTRY payload, in a chat
\* that already has a last-entry pointer.
C1_Witness ==
    /\ ev.kind = "text"
    /\ llm.called
    /\ ~llm.raised
    /\ llm.analysis.confidence < 5
    /\ llm.analysis.clarification_needed = "Which place do you mean?"
    /\ llm.analysis.intent = "log_entry"
    /\ llm.analysis.log_entry # NonePayload
    /\ chat_data[ev.chat].last_entry_id # NoId
    /\ Len(sent) = 1

\* C4 (as stated): a turn whose classification failed gets the reply and the
\* history effect of a genuine UNKNOWN turn: the canned capability reminder,
\* appended to the history as an assistant turn.
C4_FailureGetsCapabilityReminder ==
    (ev.kind = "text" /\ llm.called /\ ~llm.raised /\ llm.failed)
    => /\ sent = <<[chat |-> ev.chat, content |-> CapabilityReminder]>>
       /\ chat_data[ev.chat].messages[Len(chat_data[ev.chat].messages)]
            = AssistantTurn(CapabilityReminder)

\* C4 (amended): a turn whose classification failed without raising yields
\* intent UNKNOWN with confidence 0 and a rephrase / try-again text; the
\* router treats it as a low-confidence turn: that text is the only reply, no
\* handler runs, and no assistant turn is appended (the history ends with
\* the user turn).
C4_FailureGetsClarification ==
    (ev.kind = "text" /\ llm.called /\ ~llm.raised /\ llm.failed)
    => /\ llm.analysis.intent = "unknown"
       /\ llm.analysis.confidence = 0
       /\ llm.analysis.clarification_needed
            \in {"I couldn't understand that message. Could you rephrase?",
                 "Something went wrong. Please try again."}
       /\ sent = <<[chat |-> ev.chat,
                    content |-> [msg |-> llm.analysis.clarification_needed]]>>
       /\ calls = <<>>
       /\ chat_data[ev.chat].messages[Len(chat_data[ev.chat].messages)]
            = UserTurn(ev.text)

\* Both failure texts, after all three attempts were used up.
C4_Witness ==
    /\ ev.kind = "text"
    /\ llm.called
    /\ llm.failed
    /\ ~llm.raised
    /\ llm.attempts = 3
    /\ llm.analysis.clarification_needed = "Something went wrong. Please try again."
    /\ Len(sent) = 1

\* C5: when every attempt at the classifier fails with an API error, the
\* error does not escape the turn: the turn is classified UNKNOWN and the
\* user still receives a reply.
C5_ApiErrorNeverEscapes ==
    (/\ ev.kind = "text"
     /\ llm.called
     /\ \A i \in 0..2 : ModelCall(ev.run, i) = [err |-> "api"])
    => /\ ~llm.raised
       /\ llm.analysis.intent = "unknown"
       /\ Len(sent) = 1

\* C6: a turn classified LOG_ENTRY whose payload is absent or whose
\* restaurant name is empty is dropped silently: no reply, no stored row,
\* no last-entry pointer.
C6_NamelessLogEntryDropped ==
    [][(/\ ev'.kind = "text"
        /\ llm'.called
        /\ ~llm'.raised
        /\ llm'.analysis.intent = "log_entry"
        /\ ~(/\ llm'.analysis.confidence < 5
             /\ llm'.analysis.clarification_needed \notin {None, ""})
        /\ \/ llm'.analysis.log_entry = NonePayload
           \/ llm'.analysis.log_entry.restaurant_name = <<>>)
       => (/\ sent' = <<>>
           /\ restaurants' = restaurants
           /\ entries' = entries
           /\ chat_data'[ev'.chat].last_entry_id
                = chat_data[ev'.chat].last_entry_id)]_vars

\* C7 (as stated): a turn that is not short-circuited invokes exactly one
\* handler; LOG_ENTRY and WHAT_TO_EAT send their own reply and append no
\* assistant turn, every other intent sends exactly one reply, which is
\* appended to the history.
C7_ExactlyOneHandler ==
    (/\ ev.kind = "text"
     /\ llm.called
     /\ ~llm.raised
     /\ ~(/\ llm.analysis.confidence < 5
          /\ llm.analysis.clarification_needed \notin {None, ""}))
    => LET history == chat_data[ev.chat].messages IN
       /\ Len(calls) = 1
       /\ Len(sent) = 1
       /\ IF llm.analysis.intent \in {"log_entry", "what_to_eat"}
          THEN history[Len(history)] = UserTurn(ev.text)
          ELSE history[Len(history)] = AssistantTurn(sent[1].content)

\* C7 (amended): a turn that is not short-circuited invokes at most one
\* handler, and exactly one when the intent is GREETING, UNKNOWN or
\* WHAT_TO_EAT or the payload of its intent is present; otherwise nothing
\* runs, nothing is sent and nothing is appended.  LOG_ENTRY and
\* WHAT_TO_EAT send their own reply and append no assistant turn; the other
\* handlers return a reply that is sent and appended exactly when it is
\* non-empty.
C7_AtMostOneHandler ==
    (/\ ev.kind = "text"
     /\ llm.called
     /\ ~llm.raised
     /\ ~(/\ llm.analysis.confidence < 5
          /\ llm.analysis.clarification_needed \notin {None, ""}))
    => LET history == chat_data[ev.chat].messages
           a == llm.analysis
           present ==
               \/ a.intent \in {"greeting", "unknown", "what_to_eat"}
               \/ a.intent = "log_entry" /\ a.log_entry # NonePayload
               \/ a.intent = "add_details" /\ a.details # NonePayload
               \/ a.intent \in {"query_restaurant", "query_general"}
                  /\ a.query # NonePayload
           expected ==
               CASE a.intent = "log_entry" -> "handle_log_entry"
                 [] a.intent = "add_details" -> "handle_add_details"
                 [] a.intent \in {"query_restaurant", "query_general"}
                      -> "handle_query"
                 [] a.intent = "what_to_eat" -> "start_what_to_eat"
                 [] OTHER -> a.intent
       IN /\ Len(calls) <= 1
          /\ Len(sent) <= 1
          /\ present <=> calls = <<expected>>
          /\ ~present => sent = <<>>
          /\ a.intent \in {"greeting", "unknown", "log_entry", "what_to_eat",
                           "add_details"}
                /\ present => Len(sent) = 1
          /\ IF a.intent \in {"log_entry", "what_to_eat"} \/ sent = <<>>
             THEN history[Len(history)] = UserTurn(ev.text)
             ELSE history[Len(history)] = AssistantTurn(sent[1].content)

\* An ADD_DETAILS turn without a payload, as the second turn of a chat whose
\* first turn appended no reply: nothing runs, nothing is sent.
C7_Witness ==
    /\ ev.kind = "text"
    /\ llm.called
    /\ ~llm.raised
    /\ llm.analysis.intent = "add_details"
    /\ llm.analysis.confidence = 9
    /\ llm.analysis.details = NonePayload
    /\ calls = <<>>
    /\ sent = <<>>
    /\ Len(chat_data[ev.chat].messages) = 2

(***************************************************************************)
(* Claims about the allow-list, checked under Spec                         *)
(***************************************************************************)

\* C2: with a non-empty allow-list, a text message from a chat outside it
\* gets no reply, makes no classifier call, leaves the chat's history and
\* every restaurant and entry as they were; with an empty allow-list every
\* chat's text message is let through to the classifier (or to the order
\* dialogue that is waiting for it).
C2_UnauthorizedTextIsDropped ==
    [][(ev'.kind = "text")
       => IF allowed_chat_ids # {} /\ ev'.chat \notin allowed_chat_ids
          THEN /\ sent' = <<>>
               /\ ~llm'.called
               /\ calls' = <<>>
               /\ chat_data' = chat_data
               /\ all_turns' = all_turns
               /\ restaurants' = restaurants
               /\ entries' = entries
          ELSE \/ llm'.called
               \/ order_state[ev'.chat][ev'.user] = WAITING_FOR_ORDER]_vars

\* Chat 2, outside the allow-list {1}, has written a text after chat 1
\* stored an entry.
C2_Witness ==
    /\ allowed_chat_ids = {1}
    /\ ev.kind = "text"
    /\ ev.chat = 2
    /\ entries # <<>>
    /\ sent = <<>>
    /\ ~llm.called

\* With no allow-list, chat 2's text reaches the classifier and a handler.
C2_WitnessOpen ==
    /\ allowed_chat_ids = {}
    /\ ev.kind = "text"
    /\ ev.chat = 2
    /\ llm.called
    /\ calls = <<"handle_log_entry">>

\* C3: with a non-empty allow-list, no event from a chat outside it (text,
\* /start, /help, /search, /whattoeat, a button press) makes the bot send a
\* message to that chat.
C3_UnauthorizedChatHearsNothing ==
    (/\ allowed_chat_ids # {}
     /\ ev.kind \in {"text", "command", "button"}
     /\ ev.chat \notin allowed_chat_ids)
    => sent = <<>>

\* Chat 2, outside the allow-list {1}, is read stored entries by /search.
C3_Witness ==
    /\ allowed_chat_ids = {1}
    /\ ev.kind = "command"
    /\ ev.command = "search"
    /\ ev.chat = 2
    /\ Len(sent) = 1
    /\ sent[1].content.msg = "answer"
    /\ sent[1].content.digest # {}

(***************************************************************************)
(* Claims about the history window, checked under SpecHistory              *)
(***************************************************************************)

\* C8: the history stored for a chat holds at most 10 turns and is the most
\* recent suffix of all turns appended for the chat; a routed user turn is
\* in the history whatever the outcome of the turn, it was appended before
\* the classifier ran (it is the last turn of the classifier's context),
\* and that context is at most the 5 most recent turns.
C8_HistoryWindow ==
    /\ \A c \in Chats :
          LET n == Len(all_turns[c])
              k == Len(chat_data[c].messages)
          IN /\ k <= 10
             /\ k = IF n <= 10 THEN n ELSE 10
             /\ \A i \in 1..k : chat_data[c].messages[i] = all_turns[c][n - k + i]
    /\ ev.kind = "text"
       => LET all == all_turns[ev.chat]
              n == Len(all)
              p == IF all[n].role = "user" THEN n ELSE n - 1
              k == Len(llm.context)
          IN /\ llm.called
             /\ all[p] = UserTurn(ev.text)
             /\ \E i \in DOMAIN chat_data[ev.chat].messages :
                   chat_data[ev.chat].messages[i] = UserTurn(ev.text)
             /\ k <= 5
             /\ k = IF p <= 5 THEN p ELSE 5
             /\ \A i \in 1..k : llm.context[i] = all[p - k + i]

\* More than 10 turns were appended, and the last turn's classifier call
\* raised: the window is full and still ends with the user turn.
C8_Witness ==
    /\ Len(all_turns[1]) > 10
    /\ Len(chat_data[1].messages) = 10
    /\ ev.kind = "text"
    /\ llm.called
    /\ llm.raised
    /\ Len(llm.context) = 5
    /\ chat_data[1].messages[10] = UserTurn(ev.text)

(***************************************************************************)
(* Claims about amendments, checked under SpecAmend                        *)
(***************************************************************************)

\* C9: when a last-entry pointer exists and an ADD_DETAILS payload names a
\* restaurant such that, lower-cased and trimmed, neither name contains the
\* other, the reply is the mismatch guidance, no entry and no restaurant
\* changes, and the last-entry pointer is unchanged.
C9_MismatchMutatesNothing ==
    [][(/\ ev'.kind = "text"
        /\ llm'.called
        /\ ~llm'.raised
        /\ llm'.analysis.intent = "add_details"
        /\ llm'.analysis.confidence >= 5
        /\ llm'.analysis.details # NonePayload
        /\ chat_data[ev'.chat].last_entry_id # NoId
        /\ llm'.analysis.details.restaurant_name \notin {NoneText, <<>>}
        /\ LET mentioned == Strip(Lower(llm'.analysis.details.restaurant_name))
               last == Strip(Lower(chat_data[ev'.chat].last_entry_restaurant))
           IN ~Contains(last, mentioned) /\ ~Contains(mentioned, last))
       => (/\ sent' = <<[chat |-> ev'.chat,
                         content |->
                           [msg |-> "Your last entry was at",
                            last |-> chat_data[ev'.chat].last_entry_restaurant,
                            restaurant |->
                              llm'.analysis.details.restaurant_name]]>>
           /\ entries' = entries
           /\ restaurants' = restaurants
           /\ chat_data'[ev'.chat].last_entry_id
                = chat_data[ev'.chat].last_entry_id
           /\ chat_data'[ev'.chat].last_entry_restaurant
                = chat_data[ev'.chat].last_entry_restaurant)]_vars

\* An amendment naming "Ba", with a dish, notes and a score, after a visit
\* to "Ab" was logged in the chat.
C9_Witness ==
    /\ ev.kind = "text"
    /\ llm.called
    /\ llm.analysis.intent = "add_details"
    /\ llm.analysis.details # NonePayload
    /\ llm.analysis.details.restaurant_name = NameBa
    /\ chat_data[ev.chat].last_entry_id # NoId
    /\ chat_data[ev.chat].last_entry_restaurant = NameAb
    /\ calls = <<"handle_add_details">>
    /\ Len(sent) = 1
    /\ sent[1].content.msg = "Your last entry was at"

\* C10: an ADD_DETAILS turn with no restaurant name, in a chat whose last
\* logging turn created entry E, updates E and no other entry: a provided
\* dish becomes "<old dish>, <new dish>" when E had a dish and "<new dish>"
\* otherwise, provided notes become "<old notes>. <new notes>" when E had
\* notes and "<new notes>" otherwise, a provided sentiment or score
\* overwrites the stored one, and fields not provided keep their value.
C10_LogThenAmendMerges ==
    [][(/\ ev'.kind = "text"
        /\ llm'.called
        /\ ~llm'.raised
        /\ llm'.analysis.intent = "add_details"
        /\ llm'.analysis.confidence >= 5
        /\ llm'.analysis.details # NonePayload
        /\ chat_data[ev'.chat].last_entry_id # NoId
        /\ llm'.analysis.details.restaurant_name = NoneText)
       => LET E == chat_data[ev'.chat].last_entry_id
              d == llm'.analysis.details
              old == entries[E]
              new == entries'[E]
          IN /\ E \in DOMAIN entries
             /\ Len(entries') = Len(entries)
             /\ \A i \in DOMAIN entries : i # E => entries'[i] = entries[i]
             /\ new.restaurant_id = old.restaurant_id
             /\ new.user_telegram_id = old.user_telegram_id
             /\ new.exact_order = old.exact_order
             /\ new.dish =
                  IF d.dish_name \in {NoneText, <<>>} THEN old.dish
                  ELSE IF old.dish \in {NoneText, <<>>} THEN d.dish_name
                  ELSE old.dish \o <<",", " ">> \o d.dish_name
             /\ new.notes =
                  IF d.notes \in {NoneText, <<>>} THEN old.notes
                  ELSE IF old.notes \in {NoneText, <<>>} THEN d.notes
                  ELSE old.notes \o <<".", " ">> \o d.notes
             /\ new.sentiment =
                  IF d.sentiment \in {None, ""} THEN old.sentiment
                  ELSE d.sentiment
             /\ new.sentiment_score =
                  IF d.sentiment_score = NoneInt THEN old.sentiment_score
                  ELSE d.sentiment_score
             /\ chat_data'[ev'.chat].last_entry_id = E]_vars

\* Chat 1 logged entry 1 with a dish, another entry was logged after it, and
\* chat 1's amendment appended its dish to entry 1.
C10_Witness ==
    /\ ev.kind = "text"
    /\ llm.called
    /\ llm.analysis.intent = "add_details"
    /\ llm.analysis.details # NonePayload
    /\ llm.analysis.details.restaurant_name = NoneText
    /\ Len(entries) >= 2
    /\ chat_data[ev.chat].last_entry_id = 1
    /\ entries[1].dish = DishP \o <<",", " ">> \o DishQ
    /\ calls = <<"handle_add_details">>

\* Notes joined to stored notes, and a score of 0 with a new sentiment
\* stored over the old ones.
C10_WitnessNotes ==
    /\ ev.kind = "text"
    /\ llm.called
    /\ llm.analysis.intent = "add_details"
    /\ llm.analysis.details # NonePayload
    /\ llm.analysis.details.restaurant_name = NoneText
    /\ chat_data[ev.chat].last_entry_id # NoId
    /\ entries[chat_data[ev.chat].last_entry_id].notes
         = NotesN \o <<".", " ">> \o NotesM
    /\ entries[chat_data[ev.chat].last_entry_id].sentiment = "negative"
    /\ entries[chat_data[ev.chat].last_entry_id].sentiment_score = 0

(***************************************************************************)
(* SpecTags: one chat logs visits and amends their tags                    *)
(***************************************************************************)

MaxTagTurns == 4

TagLists == {<<"t1", "t2">>, <<"t3">>, <<"t2", "t2">>}

TagRuns ==
    {Out(Put(Sure("log_entry"), "log_entry", LogBase)),
     Out(Put(Sure("log_entry"), "log_entry", [restaurant_name |-> NameB])),
     Out(Put(Sure("add_details"), "details", DetailsBase))}
    \cup {Out(Put(Sure("add_details"), "details", [tags |-> T])) : T \in TagLists}

InitTags == InitWith({})

NextTags ==
    /\ turns < MaxTagTurns
    /\ TextTurn(1, 1, "also spicy", TagRuns, {NonePayload}, {""})

SpecTags == InitTags /\ [][NextTags]_vars

\* C11: an amendment with tag list T on an entry with tag set S leaves the
\* entry with exactly the tags S \cup T (each stored once when T is not
\* empty); the same amendment again leaves the set unchanged, and two
\* amendments give the same set in either order.
C11_TagUnion ==
    [][(/\ ev'.kind = "text"
        /\ llm'.called
        /\ ~llm'.raised
        /\ llm'.analysis.intent = "add_details"
        /\ llm'.analysis.confidence >= 5
        /\ llm'.analysis.details # NonePayload
        /\ llm'.analysis.details.restaurant_name = NoneText
        /\ chat_data[ev'.chat].last_entry_id # NoId)
       => LET E == chat_data[ev'.chat].last_entry_id
              T == llm'.analysis.details.tags
              S == IF entries[E].tags = NoneList THEN {}
                   ELSE {entries[E].tags[i] : i \in DOMAIN entries[E].tags}
              new == IF entries'[E].tags = NoneList THEN <<>>
                     ELSE entries'[E].tags
              S2 == {new[i] : i \in DOMAIN new}
              U(A, L) == A \cup {L[i] : i \in DOMAIN L}
          IN /\ S2 = S \cup {T[i] : i \in DOMAIN T}
             /\ T # <<>> => Len(new) = Cardinality(S2)
             /\ (ev.kind = "text" /\ ev.run = ev'.run) => S2 = S
             /\ \A T1 \in TagLists, T2 \in TagLists :
                   /\ {MergeTags(MergeTags(new, T1), T2)[i] :
                         i \in DOMAIN MergeTags(MergeTags(new, T1), T2)}
                        = {MergeTags(MergeTags(new, T2), T1)[i] :
                             i \in DOMAIN MergeTags(MergeTags(new, T2), T1)}
                   /\ {MergeTags(MergeTags(new, T1), T1)[i] :
                         i \in DOMAIN MergeTags(MergeTags(new, T1), T1)}
                        = U(S2, T1)]_vars

\* An entry logged with tag t1 was amended with (t1, t2): it holds t1 and t2
\* once each.
C11_Witness ==
    /\ ev.kind = "text"
    /\ llm.called
    /\ llm.analysis.intent = "add_details"
    /\ llm.analysis.details # NonePayload
    /\ llm.analysis.details.tags = <<"t1", "t2">>
    /\ calls = <<"handle_add_details">>
    /\ chat_data[ev.chat].last_entry_id # NoId
    /\ Len(entries[chat_data[ev.chat].last_entry_id].tags) = 2
    /\ {entries[chat_data[ev.chat].last_entry_id].tags[i] : i \in 1..2}
         = {"t1", "t2"}

(***************************************************************************)
(* SpecDb: calls of the restaurant lookups of DatabaseService              *)
(***************************************************************************)

MaxDbCalls == 3

NameWild == <<"_", "b">>
Asian == <<"A">>

DbNames == {NameAb, NameB, NameWild}

\* A place the lookup returned without an "id" (place.get("id", "")).
PlaceNoId ==
    [place_id |-> "", address |-> "3 Back St", cuisine |-> Thai,
     price_level |-> 2, dine_in |-> TRUE]
PlaceBare ==
    [place_id |-> "place-1", address |-> "1 Main St", cuisine |-> NoneText,
     price_level |-> NoneInt, dine_in |-> TRUE]
PlaceAsian ==
    [place_id |-> "place-2", address |-> "2 Side St", cuisine |-> Asian,
     price_level |-> 3, dine_in |-> FALSE]

\* A place whose priceLevel is PRICE_LEVEL_FREE (0) and whose types name
\* no cuisine.
PlaceFree ==
    [place_id |-> "place-5", address |-> "5 Park St", cuisine |-> NoneText,
     price_level |-> 0, dine_in |-> TRUE]

DbPlaces == {NoPlace, PlaceThai, PlaceBare, PlaceAsian, PlaceNoId, PlaceFree}

\* A call db.find_or_create_restaurant(name, **p).
FindOrCreateCall(name, p) ==
    /\ restaurants' = find_or_create_restaurant(restaurants, name, p).restaurants
    /\ ev' = [kind |-> "find_or_create_restaurant", name |-> name, place |-> p,
              returned |-> find_or_create_restaurant(restaurants, name, p).restaurant,
              created |-> Len(find_or_create_restaurant(restaurants, name, p).restaurants)
                            > Len(restaurants)]
    /\ turns' = turns + 1
    /\ UNCHANGED <<allowed_chat_ids, entries, chat_data, order_state, wte_state,
                   buttons, all_turns, sent, calls, llm, proposed>>

\* A call db.find_restaurant_by_name(name).
FindByNameCall(name) ==
    /\ ev' = [kind |-> "find_restaurant_by_name", name |-> name,
              returned |-> find_restaurant_by_name(restaurants, name)]
    /\ turns' = turns + 1
    /\ UNCHANGED <<allowed_chat_ids, restaurants, entries, chat_data, order_state,
                   wte_state, buttons, all_turns, sent, calls, llm, proposed>>

InitDb == InitWith({})

NextDb ==
    \/ \E name \in DbNames, p \in DbPlaces :
          turns < MaxDbCalls /\ FindOrCreateCall(name, p)
    \/ \E name \in DbNames \cup {NameA} :
          turns < MaxDbCalls /\ FindByNameCall(name)

SpecDb == InitDb /\ [][NextDb]_vars

\* C12: two calls of find_or_create_restaurant with the same external place
\* id never create a second record: no two rows hold the same place id, a
\* call with a place id that a row holds returns that row and writes
\* nothing, and a call that follows a creating call with the same place id
\* creates nothing; a call with a null cuisine leaves the cuisine of every
\* stored row, and of the record it returns, as it was.
C12_EnrichmentIdempotent ==
    [][(ev'.kind = "find_or_create_restaurant")
       => LET p == ev'.place
              holders == {i \in DOMAIN restaurants :
                             restaurants[i].google_place_id = p.place_id}
          IN /\ \A i \in DOMAIN restaurants', j \in DOMAIN restaurants' :
                   (/\ restaurants'[i].google_place_id \notin {None, ""}
                    /\ restaurants'[i].google_place_id
                         = restaurants'[j].google_place_id)
                   => i = j
             /\ (p.place_id \notin {None, ""} /\ holders # {})
                => /\ restaurants' = restaurants
                   /\ ev'.returned.id \in holders
             /\ (/\ ev.kind = "find_or_create_restaurant"
                 /\ ev.created
                 /\ ev.place.place_id \notin {None, ""}
                 /\ ev.place.place_id = p.place_id)
                => ~ev'.created
             /\ p.cuisine = NoneText
                => /\ \A i \in DOMAIN restaurants :
                         restaurants'[i].cuisine = restaurants[i].cuisine
                   /\ ev'.returned.id \in DOMAIN restaurants
                        => ev'.returned.cuisine
                             = restaurants[ev'.returned.id].cuisine]_vars

\* A second call with place-1, under another name and with a null cuisine,
\* returned the one row that holds place-1 with its cuisine still stored.
C12_Witness ==
    /\ ev.kind = "find_or_create_restaurant"
    /\ ev.place = PlaceBare
    /\ ~ev.created
    /\ ev.returned.name # ev.name
    /\ ev.returned.cuisine = Thai
    /\ restaurants[ev.returned.id].google_place_id = "place-1"
    /\ restaurants[ev.returned.id].cuisine = Thai

\* C13: a call of find_or_create_restaurant on an existing record leaves a
\* cuisine and a price tier that were already non-null at their stored
\* value.
C13_EnrichmentKeepsCuisineAndPrice ==
    [][(/\ ev'.kind = "find_or_create_restaurant"
        /\ ~ev'.created)
       => \A i \in DOMAIN restaurants :
             /\ restaurants[i].cuisine # NoneText
                => restaurants'[i].cuisine = restaurants[i].cuisine
             /\ restaurants[i].price_level # NoneInt
                => restaurants'[i].price_level = restaurants[i].price_level]_vars

\* A record stored with cuisine T and no place id was enriched with place-2:
\* its cuisine is now A and its price tier 3.
C13_Witness ==
    /\ ev.kind = "find_or_create_restaurant"
    /\ ev.place = PlaceAsian
    /\ ~ev.created
    /\ Len(restaurants) = 1
    /\ restaurants[1].cuisine = Asian
    /\ restaurants[1].price_level = 3
    /\ turns = 2

\* C14: find_restaurant_by_name(q) returns a restaurant whose lower-cased
\* name equals lower(q) whenever one exists; otherwise one whose lower-cased
\* name contains lower(q) when one exists; otherwise nothing.
C14_NameMatching ==
    (ev.kind = "find_restaurant_by_name")
    => LET q == Lower(ev.name)
           exact == {i \in DOMAIN restaurants : Lower(restaurants[i].name) = q}
           containing == {i \in DOMAIN restaurants :
                             Contains(Lower(restaurants[i].name), q)}
       IN IF exact # {} THEN ev.returned \in exact
          ELSE IF containing # {} THEN ev.returned \in containing
          ELSE ev.returned = NoId

\* The query "_b" returned the restaurant "Ab", whose name does not contain
\* it.
C14_Witness ==
    /\ ev.kind = "find_restaurant_by_name"
    /\ ev.name = NameWild
    /\ ev.returned # NoId
    /\ restaurants[ev.returned].name = NameAb
    /\ Len(restaurants) = 1


(***************************************************************************)
(* SpecSuggest: the what-to-eat conversation over a database file that     *)
(* earlier sessions filled                                                 *)
(***************************************************************************)

MaxSuggestTurns == 6

NameC == <<"c">>
NameD == <<"d">>
Generic == <<"R">>

PlaceThaiToo ==
    [place_id |-> "place-3", address |-> "3 High St", cuisine |-> Thai,
     price_level |-> 1, dine_in |-> TRUE]
PlaceGeneric ==
    [place_id |-> "place-4", address |-> "4 Low St", cuisine |-> Generic,
     price_level |-> NoneInt, dine_in |-> TRUE]

\* The restaurants table after four log entries named four new places:
\* two Thai ones, an Asian one and one typed only as a restaurant.
StoredRestaurants ==
    LET s1 == find_or_create_restaurant(<<>>, NameA, PlaceThai).restaurants
        s2 == find_or_create_restaurant(s1, NameB, PlaceThaiToo).restaurants
        s3 == find_or_create_restaurant(s2, NameC, PlaceAsian).restaurants
    IN find_or_create_restaurant(s3, NameD, PlaceGeneric).restaurants

\* The entries table: restaurants 1 to 3 have a positive entry (2 also a
\* negative one), restaurant 4 only a negative one.
StoredEntries ==
    LET e1 == add_entry(<<>>, 1, 1, DishP, NoneText, "positive", 8, <<>>)
        e2 == add_entry(e1, 2, 1, DishP, NoneText, "negative", -8, <<>>)
        e3 == add_entry(e2, 2, 1, DishQ, NoneText, "positive", 6, <<>>)
        e4 == add_entry(e3, 3, 1, NoneText, NoneText, "positive", NoneInt, <<>>)
    IN add_entry(e4, 4, 1, DishP, NotesN, "negative", -6, <<>>)

InitSuggest ==
    /\ allowed_chat_ids = {}
    /\ restaurants = StoredRestaurants
    /\ entries = StoredEntries
    /\ chat_data = [c \in Chats |-> EmptyChatData]
    /\ order_state = [c \in Chats |-> [u \in Users |-> END]]
    /\ wte_state = [c \in Chats |-> [u \in Users |-> END]]
    /\ buttons = [c \in Chats |-> {}]
    /\ all_turns = [c \in Chats |-> <<>>]
    /\ ev = [kind |-> "start-up"]
    /\ sent = <<>>
    /\ calls = <<>>
    /\ llm = NotCalled
    /\ proposed = [c \in Chats |-> <<>>]
    /\ turns = 0

NextSuggest ==
    \/ \E c \in Chats, u \in Users :
          /\ turns < MaxSuggestTurns
          /\ TextTurn(c, u, "what should i eat", {Out(Sure("what_to_eat"))},
                      {NonePayload}, {""})
    \/ \E c \in Chats, u \in Users :
          turns < MaxSuggestTurns /\ WhatToEatCommand(c, u)
    \/ \E c \in Chats, u \in Users :
          turns < MaxSuggestTurns /\ CancelCommand(c, u)
    \/ \E c \in Chats, u \in Users :
          /\ turns < MaxSuggestTurns
          /\ \E button \in buttons[c] : CuisineSelection(c, u, button)
    \/ \E c \in Chats, u \in Users :
          /\ turns < MaxSuggestTurns
          /\ \E button \in buttons[c] : Confirmation(c, u, button)
    \/ \E c \in Chats, u \in Users :
          turns < MaxSuggestTurns /\ WhatToEatTimeout(c, u)

SpecSuggest == InitSuggest /\ [][NextSuggest]_vars

C16_ExhaustionEndsTheFlow ==
    [][\A c \in Chats, u \in Users :
          LET cd == chat_data'[c]
              eligible ==
                  {i \in DOMAIN restaurants' :
                      /\ \E e \in DOMAIN entries' :
                            /\ entries'[e].restaurant_id = i
                            /\ entries'[e].sentiment = "positive"
                      /\ TruthyText(cd.selected_cuisine) =>
                            /\ restaurants'[i].cuisine # NoneText
                            /\ Contains(Lower(restaurants'[i].cuisine),
                                        Lower(cd.selected_cuisine))
                      /\ i \notin Range(cd.rejected_restaurants)}
          IN (/\ ev'.kind = "button" /\ ev'.chat = c /\ ev'.user = u
              /\ "suggest_restaurant" \in Range(calls')
              /\ eligible = {})
             => /\ wte_state'[c][u] = END
                /\ Len(sent') = 1
                /\ sent'[1].content.msg
                       = "I don't have any more restaurants to suggest!"
                /\ cd.suggested_restaurant_id
                       = chat_data[c].suggested_restaurant_id
                /\ proposed'[c] = proposed[c]]_vars

\* C16 happens: "try another" found every Thai restaurant rejected; the
\* conversation is over and the last proposal is still stored.
C16_Witness ==
    \E c \in Chats, u \in Users :
        /\ ev.kind = "button" /\ ev.button = REJECT /\ ev.chat = c
        /\ calls = <<"handle_confirmation", "suggest_restaurant">>
        /\ sent[1].content.msg = "I don't have any more restaurants to suggest!"
        /\ chat_data[c].selected_cuisine = Thai
        /\ Len(chat_data[c].rejected_restaurants) = 2
        /\ chat_data[c].suggested_restaurant_id
               = chat_data[c].rejected_restaurants[2]
        /\ wte_state[c][u] = END

\* C16 happens at the cuisine choice too: the chosen cuisine has no
\* restaurant with a positive entry, and CONFIRMING is never entered.
C16_WitnessCuisine ==
    \E c \in Chats, u \in Users :
        /\ ev.kind = "button" /\ ev.button = CuisineButton(Generic) /\ ev.chat = c
        /\ calls = <<"handle_cuisine_selection", "suggest_restaurant">>
        /\ sent[1].content.msg = "I don't have any more restaurants to suggest!"
        /\ chat_data[c].suggested_restaurant_id = NoId
        /\ proposed[c] = <<>>
        /\ wte_state[c][u] = END


\* C17: a text turn routed to start_what_to_eat, with a cuisine stored and
\* no what-to-eat conversation active for the sender, leaves that
\* conversation in SELECTING_CUISINE, as the /whattoeat command does.
C17_TriggerEntersSelectingCuisine ==
    [][\A c \in Chats, u \in Users :
          (/\ ev'.kind = "text" /\ ev'.chat = c /\ ev'.user = u
           /\ "start_what_to_eat" \in Range(calls')
           /\ get_distinct_cuisines(restaurants) # {}
           /\ wte_state[c][u] = END)
          => wte_state'[c][u] = SELECTING_CUISINE]_vars

\* C17's case: the text turn sent the cuisine keyboard, its buttons are on
\* screen, and the conversation is still in no state that takes a press.
C17_Witness ==
    \E c \in Chats, u \in Users :
        /\ ev.kind = "text" /\ ev.chat = c /\ ev.user = u
        /\ calls = <<"start_what_to_eat">>
        /\ sent[1].content.msg = "What kind of food are you in the mood for?"
        /\ CuisineButton(Thai) \in buttons[c]
        /\ wte_state[c][u] = END


(***************************************************************************)
(* Claims about /cancel and the conversation timeouts, checked under Spec  *)
(***************************************************************************)

\* C18: a /cancel command ends the sender's active sub-dialogue: the order
\* conversation leaves WAITING_FOR_ORDER and the what-to-eat conversation
\* leaves SELECTING_CUISINE or CONFIRMING.
C18_CancelEndsEveryDialogue ==
    [][\A c \in Chats, u \in Users :
          (/\ ev'.kind = "command" /\ ev'.command = "cancel"
           /\ ev'.chat = c /\ ev'.user = u)
          => /\ order_state[c][u] = WAITING_FOR_ORDER
                    => order_state'[c][u] = END
             /\ wte_state[c][u] \in {SELECTING_CUISINE, CONFIRMING}
                    => wte_state'[c][u] = END]_vars

\* C18's case: /cancel was sent and the order conversation still waits for
\* the order text.
C18_Witness ==
    \E c \in Chats, u \in Users :
        /\ ev.kind = "command" /\ ev.command = "cancel"
        /\ ev.chat = c /\ ev.user = u
        /\ calls = <<>>
        /\ order_state[c][u] = WAITING_FOR_ORDER


\* C19: when the order conversation or the what-to-eat conversation times
\* out, it ends and the chat's rejected list, cuisine filter and proposed
\* restaurant are cleared; the order timeout sends no message and changes
\* no entry.
C19_TimeoutClearsPartialState ==
    [][\A c \in Chats, u \in Users :
          (ev'.kind = "timeout" /\ ev'.chat = c /\ ev'.user = u)
          => /\ ev'.conversation = "order" =>
                    /\ order_state'[c][u] = END
                    /\ sent' = <<>>
                    /\ entries' = entries
             /\ ev'.conversation = "what_to_eat" => wte_state'[c][u] = END
             /\ chat_data'[c].rejected_restaurants = <<>>
             /\ chat_data'[c].selected_cuisine = NoneText
             /\ chat_data'[c].suggested_restaurant_id = NoId]_vars

\* C19, as the code has it: a timeout ends the conversation it belongs to
\* and nothing else changes: chat_data (rejected list, cuisine filter,
\* proposed restaurant, last entry, history), the tables and the other
\* conversation stay as they were.  The order timeout sends nothing; the
\* what-to-eat timeout edits the last message only when the conversation
\* was in CONFIRMING.
C19_TimeoutOnlyEndsTheDialogue ==
    [][\A c \in Chats, u \in Users :
          (ev'.kind = "timeout" /\ ev'.chat = c /\ ev'.user = u)
          => /\ chat_data' = chat_data
             /\ entries' = entries
             /\ restaurants' = restaurants
             /\ proposed' = proposed
             /\ ev'.conversation = "order" =>
                    /\ order_state[c][u] = WAITING_FOR_ORDER
                    /\ order_state' = [order_state EXCEPT ![c][u] = END]
                    /\ wte_state' = wte_state
                    /\ sent' = <<>>
             /\ ev'.conversation = "what_to_eat" =>
                    /\ wte_state[c][u] # END
                    /\ wte_state' = [wte_state EXCEPT ![c][u] = END]
                    /\ order_state' = order_state
                    /\ Len(sent') = (IF wte_state[c][u] = CONFIRMING
                                     THEN 1 ELSE 0)]_vars

\* C19 happens: the what-to-eat conversation timed out in CONFIRMING and
\* the proposal and the cuisine filter are still in chat_data.
C19_Witness ==
    \E c \in Chats, u \in Users :
        /\ ev.kind = "timeout" /\ ev.conversation = "what_to_eat"
        /\ ev.chat = c /\ ev.user = u
        /\ wte_state[c][u] = END
        /\ sent # <<>>
        /\ chat_data[c].suggested_restaurant_id # NoId
        /\ chat_data[c].selected_cuisine # NoneText

\* C19 happens for the order conversation too: it timed out waiting for
\* the order text.
C19_WitnessOrder ==
    \E c \in Chats, u \in Users :
        /\ ev.kind = "timeout" /\ ev.conversation = "order"
        /\ ev.chat = c /\ ev.user = u
        /\ order_state[c][u] = END
        /\ chat_data[c].last_entry_id # NoId


(***************************************************************************)
(* SpecNormalize: the two payload normalizers applied to raw payloads      *)
(***************************************************************************)

MaxNormalizeCalls == 2

\* Raw sentiment values: numbers (tenths) on both sides of every
\* threshold, a label, a word that is no label, and null.
RawSentiments ==
    {Num(n) : n \in {-10, -5, -4, -3, -2, 0, 2, 3, 4, 5, 10}}
        \cup {Str("positive"), Str("great"), Null}

\* Raw scores: a number, zero, or null.
RawScores == {7, 0, NoneInt}

\* Raw payloads with a sentiment, with and without a sentiment_score key.
RawPayloads ==
    {[restaurant_name |-> NameAb, sentiment |-> v] : v \in RawSentiments}
        \cup {[restaurant_name |-> NameAb, sentiment |-> v,
               sentiment_score |-> x] : v \in RawSentiments, x \in RawScores}

\* A call self._normalize_log_entry(data).
NormalizeLogEntryCall(data) ==
    /\ ev' = [kind |-> "_normalize_log_entry", data |-> data,
              returned |-> _normalize_log_entry(data)]
    /\ turns' = turns + 1
    /\ UNCHANGED <<allowed_chat_ids, restaurants, entries, chat_data,
                   order_state, wte_state, buttons, all_turns, sent, calls,
                   llm, proposed>>

\* A call self._normalize_details(data).
NormalizeDetailsCall(data) ==
    /\ ev' = [kind |-> "_normalize_details", data |-> data,
              returned |-> _normalize_details(data)]
    /\ turns' = turns + 1
    /\ UNCHANGED <<allowed_chat_ids, restaurants, entries, chat_data,
                   order_state, wte_state, buttons, all_turns, sent, calls,
                   llm, proposed>>

InitNormalize == InitWith({})

NextNormalize ==
    \/ \E data \in RawPayloads :
          turns < MaxNormalizeCalls /\ NormalizeLogEntryCall(data)
    \/ \E data \in RawPayloads :
          turns < MaxNormalizeCalls /\ NormalizeDetailsCall(data)

SpecNormalize == InitNormalize /\ [][NextNormalize]_vars

\* C20: both normalizers turn a numeric sentiment s into positive when
\* s >= 0.5, negative when s <= -0.5, neutral when -0.2 <= s <= 0.2 and
\* mixed in every other case, and put s in sentiment_score exactly when the
\* payload had no sentiment_score or a null one; an explicit score is kept.
C20_NumericSentiment ==
    (ev.kind \in {"_normalize_log_entry", "_normalize_details"}
        /\ IsNumber(ev.data.sentiment))
    => LET s == ev.data.sentiment.num
           given == Has(ev.data, "sentiment_score")
                        /\ ev.data.sentiment_score # NoneInt
           label == ev.returned.sentiment
       IN /\ label \in {Str(l) : l \in SentimentLabels}
          /\ label = Str("positive") <=> s >= 5
          /\ label = Str("negative") <=> s <= -5
          /\ label = Str("neutral") <=> (-2 <= s /\ s <= 2)
          /\ label = Str("mixed") <=> ((-5 < s /\ s < -2) \/ (2 < s /\ s < 5))
          /\ Has(ev.returned, "sentiment_score")
          /\ ev.returned.sentiment_score
                 = (IF given THEN ev.data.sentiment_score ELSE s)
          /\ ev.returned.restaurant_name = ev.data.restaurant_name

\* C20 happens: a details payload with sentiment 0.3 and a null score came
\* back as mixed with score 0.3.
C20_Witness ==
    /\ ev.kind = "_normalize_details"
    /\ ev.data = [restaurant_name |-> NameAb, sentiment |-> Num(3),
                  sentiment_score |-> NoneInt]
    /\ ev.returned.sentiment = Str("mixed")
    /\ ev.returned.sentiment_score = 3

\* C20 happens for a log-entry payload too: sentiment 0.5 with an explicit
\* score 0 came back as positive, the score still 0.
C20_WitnessExplicit ==
    /\ ev.kind = "_normalize_log_entry"
    /\ ev.data.sentiment = Num(5)
    /\ Has(ev.data, "sentiment_score") /\ ev.data.sentiment_score = 0
    /\ ev.returned.sentiment = Str("positive")
    /\ ev.returned.sentiment_score = 0


(***************************************************************************)
(* SpecLog: logging turns, amendments and the exact-order conversation of  *)
(* one chat, across restarts of the process                                *)
(***************************************************************************)

MaxLogTurns == 4

\* Classifier outputs: three log entries (the second name is a substring
\* of the first; the third carries a word that is no sentiment label) and
\* two amendments, one of them with such a word.
LogRuns ==
    {Out(Put(Sure("log_entry"), "log_entry", LogBase)),
     Out(Put(Sure("log_entry"), "log_entry", [restaurant_name |-> NameB])),
     Out(Put(Sure("log_entry"), "log_entry",
             [restaurant_name |-> NameC, sentiment |-> Str("great")])),
     Out(Put(Sure("add_details"), "details", DetailsBase)),
     Out(Put(Sure("add_details"), "details", [sentiment |-> Str("great")]))}

\* What places.search_restaurant returns: nothing, or the one place.
LogLookups == {NonePayload, PlaceThai}

\* The process is stopped and started again: the Application is built
\* without persistence, so chat_data and the conversation states start
\* empty, while the database file and the keyboards already sent remain.
Restart ==
    /\ chat_data' = [c \in Chats |-> EmptyChatData]
    /\ order_state' = [c \in Chats |-> [u \in Users |-> END]]
    /\ wte_state' = [c \in Chats |-> [u \in Users |-> END]]
    /\ proposed' = [c \in Chats |-> <<>>]
    /\ ev' = [kind |-> "restart"]
    /\ sent' = <<>>
    /\ calls' = <<>>
    /\ llm' = NotCalled
    /\ turns' = turns + 1
    /\ UNCHANGED <<allowed_chat_ids, restaurants, entries, buttons, all_turns>>

InitLog == InitWith({})

NextLog ==
    \/ \E u \in Users :
          /\ turns < MaxLogTurns
          /\ TextTurn(1, u, "the noodles at ab", LogRuns, LogLookups, {""})
    \/ \E u \in Users :
          turns < MaxLogTurns /\ ExactOrderText(1, u, "pad thai, mild")
    \/ \E u \in Users :
          /\ turns < MaxLogTurns
          /\ \E button \in buttons[1] : OrderCallback(1, u, button)
    \/ \E u \in Users :
          turns < MaxLogTurns /\ OrderTimeout(1, u)
    \/ turns < MaxLogTurns /\ Restart

SpecLog == InitLog /\ [][NextLog]_vars


\* C21: every entry references a stored restaurant; no step removes a
\* restaurant or an entry, and no step (amendment, exact-order save,
\* enrichment, restart) changes the restaurant an entry references.
C21_ReferentialIntegrity ==
    /\ [](\A e \in DOMAIN entries :
              entries[e].restaurant_id \in DOMAIN restaurants)
    /\ [][/\ DOMAIN restaurants \subseteq DOMAIN restaurants'
          /\ \A i \in DOMAIN restaurants :
                restaurants'[i].name = restaurants[i].name
          /\ DOMAIN entries \subseteq DOMAIN entries'
          /\ \A e \in DOMAIN entries :
                entries'[e].restaurant_id = entries[e].restaurant_id]_vars

\* C21 happens: an enriched restaurant owns two entries, and the exact
\* order was just saved on the second of them.
C21_Witness ==
    /\ Len(entries) = 2
    /\ entries[1].restaurant_id = 1 /\ entries[2].restaurant_id = 1
    /\ restaurants[1].google_place_id = "place-1"
    /\ entries[1].exact_order = None
    /\ entries[2].exact_order = "pad thai, mild"
    /\ calls = <<"handle_exact_order">>


\* C22: the sentiment stored on every entry is one of positive, negative,
\* neutral and mixed, whatever the classifier returned.
C22_StoredSentimentIsALabel ==
    \A e \in DOMAIN entries : entries[e].sentiment \in SentimentLabels

\* C22's case: an amendment whose payload carried the word "great" as its
\* sentiment has just been applied to the last entry of the chat.
C22_Witness ==
    /\ ev.kind = "text"
    /\ calls = <<"handle_add_details">>
    /\ llm.analysis.details.sentiment = "great"
    /\ chat_data[ev.chat].last_entry_id \in DOMAIN entries
    /\ entries[chat_data[ev.chat].last_entry_id].sentiment = "great"


\* C23: a step that handles an event of one chat (text, command, button
\* press, timeout) leaves the chat_data of every other chat as it was:
\* history, last-entry pointer, cuisine filter, proposal and rejected list.
C23_ChatIsolation ==
    [][\A b \in Chats :
          ev'.chat # b
          => /\ chat_data'[b] = chat_data[b]
             /\ order_state'[b] = order_state[b]
             /\ wte_state'[b] = wte_state[b]]_vars

\* C23 happens: chat 1 has just rejected a proposal while chat 2 holds a
\* history and a last-entry pointer of its own and no rejected restaurant.
C23_Witness ==
    /\ ev.kind = "button" /\ ev.chat = 1 /\ ev.button = REJECT
    /\ chat_data[1].rejected_restaurants # <<>>
    /\ chat_data[1].last_entry_id = NoId
    /\ chat_data[2].last_entry_id # NoId
    /\ chat_data[2].messages # <<>>
    /\ chat_data[2].rejected_restaurants = <<>>
    /\ chat_data[2].selected_cuisine = NoneText


\* C24: pressing Yes puts the order conversation in WAITING_FOR_ORDER and
\* pressing No ends it with no entry changed.  A text message in
\* WAITING_FOR_ORDER is not classified, appended to the history or routed:
\* it becomes the exact_order of the entry the chat's last_entry_id names
\* and nothing else is written, or, without a last_entry_id, the "lost
\* track" message is sent and nothing is written; either way the
\* conversation ends.
C24_ExactOrderCapture ==
    [][\A c \in Chats, u \in Users :
          (ev'.kind \in {"button", "text"} /\ ev'.chat = c /\ ev'.user = u)
          => /\ (ev'.kind = "button" /\ CallbackData(ev'.button) = ADD_ORDER_YES
                    /\ order_state[c][u] = END)
                => /\ order_state'[c][u] = WAITING_FOR_ORDER
                   /\ entries' = entries
             /\ (ev'.kind = "button" /\ CallbackData(ev'.button) = ADD_ORDER_NO
                    /\ order_state[c][u] = END)
                => /\ order_state'[c][u] = END
                   /\ entries' = entries
                   /\ sent' = <<>>
             /\ (ev'.kind = "text" /\ order_state[c][u] = WAITING_FOR_ORDER)
                => /\ order_state'[c][u] = END
                   /\ llm' = NotCalled
                   /\ calls' = <<"handle_exact_order">>
                   /\ chat_data' = chat_data
                   /\ all_turns' = all_turns
                   /\ restaurants' = restaurants
                   /\ Len(sent') = 1
                   /\ IF chat_data[c].last_entry_id = NoId
                      THEN /\ entries' = entries
                           /\ sent'[1].content.msg
                                = "Sorry, I lost track of which entry to update."
                      ELSE /\ chat_data[c].last_entry_id \in DOMAIN entries
                           /\ entries' =
                                [entries EXCEPT
                                   ![chat_data[c].last_entry_id].exact_order
                                       = ev'.text]
                           /\ sent'[1].content.msg = "Saved your order at"]_vars

\* C24 happens: the text typed in WAITING_FOR_ORDER was saved on the last
\* entry of the chat and the conversation is over.
C24_Witness ==
    \E c \in Chats, u \in Users :
        /\ ev.kind = "text" /\ ev.chat = c /\ ev.user = u
        /\ calls = <<"handle_exact_order">>
        /\ order_state[c][u] = END
        /\ chat_data[c].last_entry_id \in DOMAIN entries
        /\ entries[chat_data[c].last_entry_id].exact_order = ev.text

\* C24 happens without a pointer too: after a restart Yes was pressed on an
\* old keyboard and the typed text was answered with "lost track".
C24_WitnessLostTrack ==
    \E c \in Chats, u \in Users :
        /\ ev.kind = "text" /\ ev.chat = c /\ ev.user = u
        /\ calls = <<"handle_exact_order">>
        /\ sent[1].content.msg = "Sorry, I lost track of which entry to update."
        /\ order_state[c][u] = END
        /\ entries # <<>>
        /\ \A e \in DOMAIN entries : entries[e].exact_order = None


\* C25: when the Yes button on the confirmation message of entry E was
\* pressed and the sender's next message is the typed phrase, the phrase is
\* stored as the exact_order of E and of no other entry (here for a chat
\* that still has a last-entry pointer).
C25_OrderSavedOnOfferedEntry ==
    [][\A c \in Chats, u \in Users :
          (/\ ev.kind = "button" /\ ev.chat = c /\ ev.user = u
           /\ CallbackData(ev.button) = ADD_ORDER_YES
           /\ order_state[c][u] = WAITING_FOR_ORDER
           /\ chat_data[c].last_entry_id # NoId
           /\ ev'.kind = "text" /\ ev'.chat = c /\ ev'.user = u)
          => entries' = [entries EXCEPT ![ev.button.entry].exact_order
                                            = ev'.text]]_vars

\* C25's case: Yes was pressed on the confirmation message of entry 1
\* after a later logging turn of the chat had created entry 2, and the
\* conversation waits for the phrase.
C25_Witness ==
    \E c \in Chats, u \in Users :
        /\ ev.kind = "button" /\ ev.chat = c /\ ev.user = u
        /\ ev.button = OnConfirmationOf(1, ADD_ORDER_YES)
        /\ order_state[c][u] = WAITING_FOR_ORDER
        /\ Len(entries) = 2
        /\ chat_data[c].last_entry_id = 2


\* C26: a logging turn inserts exactly one entry, leaves the other entries
\* alone and adds at most one restaurant; when the places lookup returns
\* nothing and find_restaurant_by_name finds nothing for the name, it
\* appends a restaurant with that name and no place fields, and the new
\* entry references it.
C26_LoggingSucceedsWithoutPlaces ==
    [][calls' = <<"handle_log_entry">>
       => LET name == llm'.analysis.log_entry.restaurant_name
              n == Len(restaurants)
          IN /\ Len(entries') = Len(entries) + 1
             /\ \A e \in DOMAIN entries : entries'[e] = entries[e]
             /\ Len(restaurants') \in {n, n + 1}
             /\ (ev'.lookup = NonePayload
                    /\ find_restaurant_by_name(restaurants, name) = NoId)
                => /\ Len(restaurants') = n + 1
                   /\ \A i \in DOMAIN restaurants :
                         restaurants'[i] = restaurants[i]
                   /\ restaurants'[n + 1] =
                         [name |-> name, google_place_id |-> None,
                          address |-> None, cuisine |-> NoneText,
                          price_level |-> NoneInt, dine_in |-> TRUE]
                   /\ entries'[Len(entries')].restaurant_id = n + 1]_vars

\* C26 happens: the second logging turn named a new restaurant, the places
\* lookup returned nothing, and the entry sits on a bare second row.
C26_Witness ==
    /\ calls = <<"handle_log_entry">>
    /\ ev.lookup = NonePayload
    /\ Len(restaurants) = 2 /\ Len(entries) = 2
    /\ restaurants[2].name = llm.analysis.log_entry.restaurant_name
    /\ restaurants[2].google_place_id = None
    /\ restaurants[2].cuisine = NoneText
    /\ entries[2].restaurant_id = 2


\* C27: a logging turn whose restaurant name find_restaurant_by_name
\* resolves to a stored restaurant, by equality or as a substring, adds no
\* restaurant row, with or without place data.
C27_NoDuplicateOnRemention ==
    [][(/\ calls' = <<"handle_log_entry">>
        /\ find_restaurant_by_name(
               restaurants, llm'.analysis.log_entry.restaurant_name) # NoId)
       => Len(restaurants') = Len(restaurants)]_vars

\* C27 happens: the name "b" resolved as a substring to the stored "Ab"
\* while the places lookup had data; the table still has one row, which
\* carries the place data and owns both entries.
C27_Witness ==
    /\ calls = <<"handle_log_entry">>
    /\ llm.analysis.log_entry.restaurant_name = NameB
    /\ ev.lookup = PlaceThai
    /\ Len(restaurants) = 1 /\ Len(entries) = 2
    /\ restaurants[1].name = NameAb
    /\ restaurants[1].google_place_id = "place-1"
    /\ entries[1].restaurant_id = 1 /\ entries[2].restaurant_id = 1


\* C28: when find_restaurant_by_name resolves the logged name to a stored
\* restaurant R, the new entry references R and the chat's
\* last_entry_restaurant is R's name.
C28_EntryOwnedByResolvedRestaurant ==
    [][calls' = <<"handle_log_entry">>
       => LET found == find_restaurant_by_name(
                           restaurants,
                           llm'.analysis.log_entry.restaurant_name)
          IN found # NoId
             => /\ entries'[Len(entries')].restaurant_id = found
                /\ chat_data'[ev'.chat].last_entry_restaurant
                       = restaurants[found].name]_vars

\* C28's case: "Ab" is stored without a place id, "c" holds place-1, and a
\* logging turn for "Ab" whose lookup returned place-1 put its entry on
\* "c" and recorded "c" as the last restaurant.
C28_Witness ==
    /\ calls = <<"handle_log_entry">>
    /\ llm.analysis.log_entry.restaurant_name = NameAb
    /\ ev.lookup = PlaceThai
    /\ Len(restaurants) = 2
    /\ restaurants[1].name = NameAb /\ restaurants[1].google_place_id = None
    /\ restaurants[2].name = NameC
    /\ restaurants[2].google_place_id = "place-1"
    /\ entries[Len(entries)].restaurant_id = 2
    /\ chat_data[ev.chat].last_entry_restaurant = NameC

\* C29: after every run of handle_log_entry the chat's last_entry_id is the
\* id of the entry just inserted; in every reachable state a chat that has a
\* last_entry_id has, as last_entry_restaurant, the name of the restaurant
\* that owns that entry; and a step that is not a logging run in that chat
\* (nor a restart of the process, which drops chat_data) leaves the chat's
\* last_entry_id and last_entry_restaurant as they were.
C29_LastEntryPointerConsistency ==
    /\ [](\A c \in Chats :
            chat_data[c].last_entry_id # NoId
            => /\ chat_data[c].last_entry_id \in DOMAIN entries
               /\ chat_data[c].last_entry_restaurant =
                    restaurants[entries[chat_data[c].last_entry_id]
                                    .restaurant_id].name)
    /\ [][/\ calls' = <<"handle_log_entry">>
             => /\ Len(entries') = Len(entries) + 1
                /\ chat_data'[ev'.chat].last_entry_id = Len(entries')
          /\ \A c \in Chats :
                /\ ev'.kind # "restart"
                /\ calls' # <<"handle_log_entry">> \/ c # ev'.chat
                => /\ chat_data'[c].last_entry_id = chat_data[c].last_entry_id
                   /\ chat_data'[c].last_entry_restaurant =
                        chat_data[c].last_entry_restaurant]_vars

\* A logging run whose payload names "b" resolved to the stored "Ab": the
\* pointer is the new entry and records "Ab", the owner's name.
C29_Witness ==
    /\ calls = <<"handle_log_entry">>
    /\ llm.analysis.log_entry.restaurant_name = NameB
    /\ Len(entries) >= 2
    /\ chat_data[ev.chat].last_entry_id = Len(entries)
    /\ restaurants[entries[Len(entries)].restaurant_id].name = NameAb
    /\ chat_data[ev.chat].last_entry_restaurant = NameAb

\* C30: a run of handle_add_details that reaches its update step changes the
\* stored entries only if its `updates` dict is not empty; it answers with
\* the "not sure what to add" text if and only if `updates` was empty, that
\* is, no update was applied; and whenever a stored field changed, the
\* answer is the "Updated your entry" summary.
C30_NoncommittalIffNoUpdate ==
    [][(/\ calls' = <<"handle_add_details">>
        /\ Len(sent') = 1
        /\ sent'[1].content.msg \in
              {"Updated your entry",
               "Got it! (though I'm not sure what to add)"})
       => LET E == chat_data[ev'.chat].last_entry_id
              updates == BuildUpdates(get_entry(entries, E),
                                      llm'.analysis.details)
              noncommittal == sent'[1].content.msg =
                                "Got it! (though I'm not sure what to add)"
          IN /\ entries' # entries => DOMAIN updates # {}
             /\ noncommittal <=> DOMAIN updates = {}
             /\ entries' # entries => ~noncommittal]_vars

\* An amendment carrying only a sentiment: the entry's sentiment and score
\* were overwritten and the answer is "not sure what to add".
C30_Witness ==
    /\ calls = <<"handle_add_details">>
    /\ llm.analysis.details.dish_name = NoneText
    /\ llm.analysis.details.notes = NoneText
    /\ llm.analysis.details.tags = <<>>
    /\ llm.analysis.details.sentiment = "negative"
    /\ llm.analysis.details.sentiment_score = -7
    /\ chat_data[ev.chat].last_entry_id # NoId
    /\ entries[chat_data[ev.chat].last_entry_id].sentiment = "negative"
    /\ entries[chat_data[ev.chat].last_entry_id].sentiment_score = -7
    /\ Len(sent) = 1
    /\ sent[1].content.msg = "Got it! (though I'm not sure what to add)"

(***************************************************************************)
(* SpecEntries: two chats logging, amending and saving exact orders over   *)
(* one database                                                            *)
(***************************************************************************)

MaxEntryTurns == 5

\* Classifier outputs: a log entry with a dish and notes, and an amendment
\* with a dish and notes.
EntryRuns ==
    {Out(Put(Sure("log_entry"), "log_entry",
             [restaurant_name |-> NameAb, dish_name |-> DishP,
              notes |-> NotesN])),
     Out(Put(Sure("add_details"), "details",
             [dish_name |-> DishQ, notes |-> NotesM]))}

InitEntries == InitWith({})

NextEntries ==
    \/ \E c \in Chats :
          /\ turns < MaxEntryTurns
          /\ TextTurn(c, 1, "the noodles at ab", EntryRuns, {NonePayload}, {""})
    \/ \E c \in Chats :
          turns < MaxEntryTurns /\ ExactOrderText(c, 1, "pad thai, mild")
    \/ \E c \in Chats :
          /\ turns < MaxEntryTurns
          /\ \E button \in buttons[c] : OrderCallback(c, 1, button)

SpecEntries == InitEntries /\ [][NextEntries]_vars

\* s is an initial part of t.
IsPrefixOf(s, t) == Len(s) <= Len(t) /\ SubSeq(t, 1, Len(s)) = s

\* C31: in every step, an entry whose notes (respectively dish) held a
\* non-empty value v holds afterwards a value that has v as a prefix, so
\* nothing clears or shortens them; and a step that runs handle_exact_order
\* leaves the notes and the dish of every entry as they were.
C31_NotesAndDishAppendOnly ==
    [][/\ Len(entries') >= Len(entries)
       /\ \A i \in DOMAIN entries :
             /\ TruthyText(entries[i].notes)
                => IsPrefixOf(entries[i].notes, entries'[i].notes)
             /\ TruthyText(entries[i].dish)
                => IsPrefixOf(entries[i].dish, entries'[i].dish)
             /\ calls' = <<"handle_exact_order">>
                => /\ entries'[i].notes = entries[i].notes
                   /\ entries'[i].dish = entries[i].dish]_vars

\* An entry logged with dish "p" and notes "n", amended to "p, q" and
\* "n. m", and then given an exact order: dish and notes kept.
C31_Witness ==
    /\ calls = <<"handle_exact_order">>
    /\ chat_data[ev.chat].last_entry_id # NoId
    /\ entries[chat_data[ev.chat].last_entry_id].exact_order = "pad thai, mild"
    /\ entries[chat_data[ev.chat].last_entry_id].dish
         = DishP \o <<",", " ">> \o DishQ
    /\ entries[chat_data[ev.chat].last_entry_id].notes
         = NotesN \o <<".", " ">> \o NotesM

(***************************************************************************)
(* SpecFlows: every flow of one chat over a stored database                *)
(***************************************************************************)

MaxFlowTurns == 4

\* Classifier outputs: a restaurant query, a general query, a greeting, a
\* log entry and an amendment.
FlowRuns ==
    {Out(Put(Sure("query_restaurant"), "query", [restaurant_name |-> NameA])),
     Out(Put(Sure("query_general"), "query", [search_term |-> DishP])),
     Out(Sure("greeting")),
     Out(Put(Sure("log_entry"), "log_entry", LogBase)),
     Out(Put(Sure("add_details"), "details", DetailsBase))}

NextFlows ==
    \/ \E u \in Users :
          /\ turns < MaxFlowTurns
          /\ TextTurn(1, u, "what did we have", FlowRuns, {NonePayload},
                      {"You had the pad thai."})
    \/ \E u \in Users :
          turns < MaxFlowTurns /\ ExactOrderText(1, u, "pad thai, mild")
    \/ \E u \in Users :
          /\ turns < MaxFlowTurns
          /\ \E button \in buttons[1] : OrderCallback(1, u, button)
    \/ \E u \in Users : turns < MaxFlowTurns /\ StartCommand(1, u)
    \/ \E u \in Users : turns < MaxFlowTurns /\ HelpCommand(1, u)
    \/ \E u \in Users :
          /\ turns < MaxFlowTurns
          /\ SearchCommand(1, u, DishP, "You had the pad thai.")
    \/ \E u \in Users : turns < MaxFlowTurns /\ WhatToEatCommand(1, u)
    \/ \E u \in Users : turns < MaxFlowTurns /\ CancelCommand(1, u)
    \/ \E u \in Users :
          /\ turns < MaxFlowTurns
          /\ \E button \in buttons[1] : CuisineSelection(1, u, button)
    \/ \E u \in Users :
          /\ turns < MaxFlowTurns
          /\ \E button \in buttons[1] : Confirmation(1, u, button)
    \/ \E u \in Users : turns < MaxFlowTurns /\ WhatToEatTimeout(1, u)

SpecFlows == InitSuggest /\ [][NextFlows]_vars

\* The handlers that write to the database.
Writers == {"handle_log_entry", "handle_add_details", "handle_exact_order"}

\* C32: a step that runs none of handle_log_entry, handle_add_details and
\* handle_exact_order (a query, /search, /start, /help, or any transition
\* of the suggestion flow) leaves the restaurants and the entries as they
\* were; an entry is added only by a step that runs handle_log_entry, and a
\* stored entry changes only in a step that runs handle_add_details or
\* handle_exact_order.
C32_ReadOnlyFlows ==
    [][/\ Range(calls') \cap Writers = {}
          => restaurants' = restaurants /\ entries' = entries
       /\ Len(entries') >= Len(entries)
       /\ Len(entries') > Len(entries) => calls' = <<"handle_log_entry">>
       /\ (\E i \in DOMAIN entries : entries'[i] # entries[i])
          => calls' \in {<<"handle_add_details">>, <<"handle_exact_order">>}]_vars

\* A "try another" press in the suggestion flow, after a restaurant query
\* was answered from the stored entries: the database is the stored one.
C32_Witness ==
    /\ calls = <<"handle_confirmation", "suggest_restaurant">>
    /\ chat_data[1].rejected_restaurants # <<>>
    /\ \E i \in DOMAIN all_turns[1] :
          /\ all_turns[1][i].role = "assistant"
          /\ all_turns[1][i].content.msg = "answer"
    /\ restaurants = StoredRestaurants
    /\ entries = StoredEntries

(***************************************************************************)
(* Claims about the entry of the suggestion flow, checked under Spec       *)
(***************************************************************************)

\* C33: a step that runs start_what_to_eat with no cuisine stored sends the
\* "haven't saved any restaurants yet" text, leaves the sender's
\* what-to-eat conversation where it was and leaves the chat's rejected
\* list as it was; with a cuisine stored it empties the chat's rejected
\* list and leaves the conversation in SELECTING_CUISINE.  A step that does
\* not run start_what_to_eat leaves every chat's rejected list as it was or
\* appends the proposal just rejected to it.
C33_SuggestionFlowEntry ==
    [][/\ "start_what_to_eat" \in Range(calls')
          => LET c == ev'.chat
                 u == ev'.user
             IN IF get_distinct_cuisines(restaurants) = {}
                THEN /\ sent'[1].content.msg
                          = "You haven't saved any restaurants yet!"
                     /\ wte_state'[c][u] = wte_state[c][u]
                     /\ chat_data'[c].rejected_restaurants
                          = chat_data[c].rejected_restaurants
                ELSE /\ chat_data'[c].rejected_restaurants = <<>>
                     /\ wte_state'[c][u] = SELECTING_CUISINE
       /\ "start_what_to_eat" \notin Range(calls') /\ ev'.kind # "restart"
          => \A c \in Chats :
                \/ chat_data'[c].rejected_restaurants
                     = chat_data[c].rejected_restaurants
                \/ /\ ev'.kind = "button" /\ ev'.chat = c
                   /\ CallbackData(ev'.button) = REJECT
                   /\ chat_data'[c].rejected_restaurants
                        = Append(chat_data[c].rejected_restaurants,
                                 chat_data[c].suggested_restaurant_id)]_vars

\* A text turn ran start_what_to_eat while the sender's conversation was in
\* CONFIRMING: the rejected list is empty again and the conversation is
\* still in CONFIRMING.
C33_Witness ==
    \E c \in Chats, u \in Users :
        /\ ev.kind = "text" /\ ev.chat = c /\ ev.user = u
        /\ calls = <<"start_what_to_eat">>
        /\ sent[1].content.msg = "What kind of food are you in the mood for?"
        /\ chat_data[c].rejected_restaurants = <<>>
        /\ chat_data[c].suggested_restaurant_id # NoId
        /\ wte_state[c][u] = CONFIRMING

(***************************************************************************)
(* Claims about the reject loop, checked under SpecSuggest                 *)
(***************************************************************************)

\* The restaurants still open to a draw for chat data cd: a positive entry,
\* a cuisine matching the filter, not in the rejected list.
StillEligible(rs, es, cd) ==
    PositiveCandidates(rs, es, cd.selected_cuisine,
                       Range(cd.rejected_restaurants))

MaxClassifyCalls == 1

ValidGreeting == [data |-> Sure("greeting")]
ValidSuggest == [data |-> Sure("what_to_eat")]
\* Valid JSON that Intent(...) rejects.
InvalidResponse == [data |-> [intent |-> "order_pizza", confidence |-> 9]]

ClassifierOutcomes ==
    {JsonError, ApiError, ValidGreeting, ValidSuggest, InvalidResponse}

\* The outcomes of the first, second and third model call, were they made.
ClassifierRuns ==
    {<<a, b, c>> : a \in ClassifierOutcomes, b \in ClassifierOutcomes,
                   c \in ClassifierOutcomes}

\* A call llm.analyze_message(text, history).
AnalyzeCall(run) ==
    /\ ev' = [kind |-> "analyze_message", run |-> run,
              returned |-> analyze_message(run)]
    /\ turns' = turns + 1
    /\ UNCHANGED <<allowed_chat_ids, restaurants, entries, chat_data,
                   order_state, wte_state, buttons, all_turns, sent, calls,
                   llm, proposed>>

InitClassify == InitWith({})

NextClassify ==
    \E run \in ClassifierRuns : turns < MaxClassifyCalls /\ AnalyzeCall(run)

SpecClassify == InitClassify /\ [][NextClassify]_vars

\* C35: a call of analyze_message makes between 1 and max_retries model
\* calls; if one of the first max_retries outcomes is a valid analysis, it
\* makes exactly as many calls as it takes to reach the first such outcome
\* and returns that analysis; otherwise it makes max_retries calls and ends
\* with the outcome of the last one: the API error raised, or the failure
\* analysis of a JSON error or of another exception.
C35_RetriesBoundedAndLocal ==
    ev.kind = "analyze_message"
    => LET run == ev.run
           res == ev.returned
           valid == {i \in 1..max_retries :
                        run[i] \in {ValidGreeting, ValidSuggest}}
       IN /\ res.calls \in 1..max_retries
          /\ valid # {}
             => /\ res.calls = Min(valid)
                /\ ~res.raised /\ ~res.failed
                /\ res.analysis.intent = run[Min(valid)].data.intent
                /\ res.analysis.confidence = run[Min(valid)].data.confidence
          /\ valid = {}
             => /\ res.calls = max_retries
                /\ res.failed
                /\ res.raised <=> run[max_retries] = ApiError
                /\ run[max_retries] = JsonError
                   => res.analysis = CouldNotUnderstand
                /\ run[max_retries] = InvalidResponse
                   => res.analysis = SomethingWentWrong

\* The second model call is the first valid one: two calls were made, the
\* third outcome (an API error) never happened.
C35_Witness ==
    /\ ev.kind = "analyze_message"
    /\ ev.run = <<JsonError, ValidGreeting, ApiError>>
    /\ ev.returned.calls = 2
    /\ ~ev.returned.raised
    /\ ev.returned.analysis.intent = "greeting"

\* No outcome is valid and the last one is an API error: three calls, and
\* the error is raised.
C35_WitnessExhausted ==
    /\ ev.kind = "analyze_message"
    /\ ev.run = <<InvalidResponse, JsonError, ApiError>>
    /\ ev.returned.calls = 3
    /\ ev.returned.raised

(***************************************************************************)
(* Claims about the restaurants table, checked under SpecLog               *)
(***************************************************************************)

\* C36: in every reachable state no two rows of the restaurants table hold
\* the same non-empty google_place_id.
C36_PlaceIdsUnique ==
    \A i, j \in DOMAIN restaurants :
        (/\ TruthyStr(restaurants[i].google_place_id)
         /\ restaurants[i].google_place_id = restaurants[j].google_place_id)
        => i = j

\* A visit to the unknown name "c" was logged while the lookup returned
\* the place that restaurant 1 already holds: no row was added for "c".
C36_Witness ==
    /\ calls = <<"handle_log_entry">>
    /\ ev.lookup = PlaceThai
    /\ llm.analysis.log_entry.restaurant_name = NameC
    /\ restaurants[1].google_place_id = "place-1"
    /\ \A i \in DOMAIN restaurants : restaurants[i].name # NameC
    /\ entries[Len(entries)].restaurant_id = 1

(***************************************************************************)
(* Claims about the two chats' entries, checked under SpecEntries          *)
(***************************************************************************)

\* The entries whose confirmation (with its Yes / No thanks keyboard) was
\* sent to chat c: the entries the logging turns of chat c inserted.
LoggedIn(c) ==
    {button.entry : button \in {b \in buttons[c] : "entry" \in DOMAIN b}}

\* C37: a step changes a stored entry only if it is a turn of a chat whose
\* own logging turn inserted that entry; the entry a chat's amendments and
\* exact-order saves write to (its last_entry_id) is always one of its own;
\* and no entry was inserted by the logging turns of two chats.
C37_UpdatesStayInTheCreatingChat ==
    /\ [](\A c \in Chats :
            /\ chat_data[c].last_entry_id # NoId
               => chat_data[c].last_entry_id \in LoggedIn(c)
            /\ \A d \in Chats : c # d => LoggedIn(c) \cap LoggedIn(d) = {})
    /\ [][\A i \in DOMAIN entries :
            entries'[i] # entries[i]
            => /\ calls' \in {<<"handle_add_details">>,
                              <<"handle_exact_order">>}
               /\ i \in LoggedIn(ev'.chat)]_vars

\* Chat 1 logged entry 1, chat 2 logged entry 2, then chat 1 amended: the
\* dish was appended to entry 1 and entry 2 is as chat 2 logged it.
C37_Witness ==
    /\ calls = <<"handle_add_details">>
    /\ ev.chat = 1
    /\ LoggedIn(1) = {1}
    /\ LoggedIn(2) = {2}
    /\ entries[1].dish = DishP \o <<",", " ">> \o DishQ
    /\ entries[2].dish = DishP
    /\ entries[2].notes = NotesN

\* The same interleaving with an exact order saved by chat 1.
C37_WitnessOrder ==
    /\ calls = <<"handle_exact_order">>
    /\ ev.chat = 1
    /\ LoggedIn(1) = {1}
    /\ LoggedIn(2) = {2}
    /\ entries[1].exact_order = "pad thai, mild"
    /\ entries[2].exact_order = None

(***************************************************************************)
(* Claims about the returned Restaurant, checked under SpecDb              *)
(***************************************************************************)

\* C38: after a call of find_or_create_restaurant, the Restaurant object it
\* returned equals the stored row of the same id in every field.
C38_ReturnedEqualsStored ==
    ev.kind = "find_or_create_restaurant"
    => /\ ev.returned.id \in DOMAIN restaurants
       /\ ev.returned = Restaurant(ev.returned.id, restaurants[ev.returned.id])

\* A row stored without place data was merged with a place whose price
\* tier is 0: the row holds 0, the returned object holds no price tier.
C38_Witness ==
    /\ ev.kind = "find_or_create_restaurant"
    /\ ~ev.created
    /\ ev.place = PlaceFree
    /\ restaurants[ev.returned.id].google_place_id = "place-5"
    /\ restaurants[ev.returned.id].price_level = 0
    /\ ev.returned.price_level = NoneInt

=============================================================================
